---------------------------- MODULE Spec2Model ----------------------------
(***************************************************************************)
(* Verification model of the EnergyManager battery discharge optimizer     *)
(* (energymanager/src/battery_optimizer.py and energymanager/run.py).      *)
(*                                                                         *)
(* Time.  A datetime is a record [wall, off]: `wall` is the number of      *)
(* minutes of its own wall clock since 00:00 of day 0 (day 0 is a Monday), *)
(* `off` is the UTC offset of its timezone in minutes.  Python compares    *)
(* timezone-aware datetimes by instant (wall - off), while .hour, .minute, *)
(* .weekday(), .date() and .replace() act on the wall clock.  Seconds and  *)
(* microseconds are dropped: get_tariff_periods clears them first thing.   *)
(*                                                                         *)
(* Energy.  Every energy, efficiency and SOC percentage of the simulator   *)
(* and of the decision is a Python float, and the model computes each of   *)
(* them with the rounding of float arithmetic (see "Python float           *)
(* arithmetic" below): a sum that is 0 in exact arithmetic can be 2.8e-14  *)
(* in floats, and the tests of the decision read the float.                *)
(***************************************************************************)
EXTENDS Integers, Sequences, FiniteSets, TLC

VARIABLES
    optimizer,   \* BatteryOptimizer.self: the parsed configuration
    now,         \* the `now` argument of the call
    tariff,      \* value returned by get_tariff_periods, None before the call
    soc_percent, \* the starting SOC argument (0..100)
    forecast,    \* the forecast DataFrame: rows [time, net_energy_wh] in index order
    block_from,  \* simulate_soc argument, None or a datetime
    block_until, \* simulate_soc argument, None or a datetime
    sim,         \* DataFrame returned by simulate_soc, empty before the call
    result,      \* tuple returned by calculate_decision, None before the call
    last_discharge_allowed,  \* EnergyManager.last_discharge_allowed
    battery_w,   \* maximum discharge power set at the battery (HA number entity)
    ha_client,   \* HAClient.self: where a token can come from
    telegram,    \* notifications._BOT_TOKEN and _CHAT_ID: whether each is set
    scheduler,   \* the position of the scheduler thread in run_optimization
    callers,     \* per thread: its call of control_battery in progress, or None
    overlapped,  \* whether a call of control_battery began during another
    cycle,       \* what the last step of the manager met and did, None before
    appliance,   \* arguments and result of calculate_appliance_signal
    charge_point, \* ChargePointHandler.self and what it returned, sent and awaits
    ha_call,     \* HAClient.set_number: its arguments, loop state and result
    op           \* name of the last operation applied ("init" before any)

vars == <<optimizer, now, tariff, soc_percent, forecast, block_from,
          block_until, sim, result, last_discharge_allowed, battery_w,
          ha_client, telegram, scheduler, callers, overlapped, cycle,
          appliance, charge_point, ha_call, op>>

\* the state of the EnergyManager application
manager_vars ==
    <<last_discharge_allowed, battery_w, ha_client, telegram, scheduler,
      callers, overlapped, cycle>>

\* the state of the components that are exercised on their own
side_vars == <<appliance, charge_point, ha_call>>

\* Python's None, where a record (a datetime, a TariffPeriod) is optional
None == [none |-> TRUE]

\* a present value of an Optional[bool]
Some(b) == [some |-> b]

\* no EnergyManager is running: the calls below are made on a BatteryOptimizer
\* alone
NoManager ==
    /\ last_discharge_allowed = None
    /\ battery_w = 0
    /\ ha_client = None
    /\ telegram = None
    /\ scheduler = None
    /\ callers = None
    /\ overlapped = FALSE
    /\ cycle = None

\* calculate_appliance_signal is not called, no ChargePointHandler and no
\* HAClient call exist
NoSideCalls ==
    /\ appliance = None
    /\ charge_point = None
    /\ ha_call = None

----------------------------------------------------------------------------
(* datetime arithmetic *)

MinutesPerDay == 1440

\* length of the slot `now` is floored to
SlotMinutes == 15

\* hour of the hard-coded target time
TargetHour == 21

\* UTC offset of Europe/Zurich (CET) in minutes
SwissOffsetMinutes == 60

DateTime(wall, off) == [wall |-> wall, off |-> off]

\* datetime.date(): the calendar day of the wall clock
date(dt) == dt.wall \div MinutesPerDay

hour(dt) == (dt.wall % MinutesPerDay) \div 60

minute(dt) == dt.wall % 60

\* datetime.weekday(): Monday = 0 ... Sunday = 6
weekday(dt) == date(dt) % 7

\* dt.replace(hour=h, minute=m)
replace_hm(dt, h, m) == DateTime(date(dt) * MinutesPerDay + h * 60 + m, dt.off)

\* dt + timedelta(days=n)
plus_days(dt, n) == DateTime(dt.wall + n * MinutesPerDay, dt.off)

\* the instant a timezone-aware datetime denotes, in minutes UTC
Instant(dt) == dt.wall - dt.off

\* dt.astimezone(tz) for a timezone of offset `off`
astimezone(dt, off) == DateTime(Instant(dt) + off, off)

----------------------------------------------------------------------------
(* BatteryOptimizer: tariff calendar *)

is_holiday(self, dt) == date(dt) \in self.holidays

is_weekend(dt) == weekday(dt) >= 5

\* plausible slip: holidays honoured only under the weekend flag
is_cheap_day_flag_gates_holiday(self, dt) ==
    self.weekend_all_day_cheap /\ (is_weekend(dt) \/ is_holiday(self, dt))

is_cheap_day(self, dt) ==
    (self.weekend_all_day_cheap /\ is_weekend(dt)) \/ is_holiday(self, dt)

\* while self.is_cheap_day(check_day): check_day += timedelta(days=1)
RECURSIVE skip_cheap_days(_, _)
skip_cheap_days(self, check_day) ==
    IF is_cheap_day(self, check_day)
    THEN skip_cheap_days(self, plus_days(check_day, 1))
    ELSE check_day

TariffPeriod(cheap_start, cheap_end, target, is_cheap_now) ==
    [cheap_start |-> cheap_start, cheap_end |-> cheap_end,
     target |-> target, is_cheap_now |-> is_cheap_now]

\* now.replace(second=0, microsecond=0).replace(minute=(now.minute // 15) * 15)
floor_to_slot(dt) ==
    replace_hm(dt, hour(dt), (minute(dt) \div SlotMinutes) * SlotMinutes)

get_tariff_periods(self, now_arg) ==
    LET n == floor_to_slot(now_arg)
        today == replace_hm(n, 0, 0)
    IN
    IF is_cheap_day(self, n)
    THEN LET check_day == skip_cheap_days(self, plus_days(today, 1))
         IN TariffPeriod(
                n,
                replace_hm(check_day, self.cheap_end_hour, self.cheap_end_minute),
                replace_hm(check_day, TargetHour, 0),
                TRUE)
    ELSE LET today_cheap_start ==
                 replace_hm(today, self.cheap_start_hour, self.cheap_start_minute)
             today_cheap_end ==
                 replace_hm(today, self.cheap_end_hour, self.cheap_end_minute)
             tomorrow == plus_days(today, 1)
         IN
         IF \/ hour(n) < self.cheap_end_hour
            \/ (hour(n) = self.cheap_end_hour /\ minute(n) < self.cheap_end_minute)
         THEN TariffPeriod(
                  replace_hm(plus_days(today, -1),
                             self.cheap_start_hour, self.cheap_start_minute),
                  today_cheap_end,
                  replace_hm(today, TargetHour, 0),
                  TRUE)
         ELSE IF hour(n) >= self.cheap_start_hour
         THEN IF is_cheap_day(self, tomorrow)
              THEN LET check_day == skip_cheap_days(self, plus_days(tomorrow, 1))
                   IN TariffPeriod(
                          today_cheap_start,
                          replace_hm(check_day, self.cheap_end_hour,
                                     self.cheap_end_minute),
                          replace_hm(check_day, TargetHour, 0),
                          TRUE)
              ELSE TariffPeriod(
                       today_cheap_start,
                       replace_hm(tomorrow, self.cheap_end_hour,
                                  self.cheap_end_minute),
                       replace_hm(tomorrow, TargetHour, 0),
                       TRUE)
         ELSE TariffPeriod(
                  today_cheap_start,
                  replace_hm(tomorrow, self.cheap_end_hour, self.cheap_end_minute),
                  replace_hm(tomorrow, TargetHour, 0),
                  FALSE)

----------------------------------------------------------------------------
(* Inputs of the tariff calendar *)

\* last calendar day a `now` is drawn from (day 0 is a Monday, so 7 is the
\* Monday after the weekend 5, 6)
MaxDay == 7

\* first calendar day a `now` is drawn from: day 3 is a Thursday
NowDays == {d \in 0..MaxDay : d >= 3}

NowHours == {0, 5, 6, 12, 20, 21, 22, 23}

NowMinutes == {0, 10, 15, 29, 30, 45}

\* offsets `now` is expressed in: UTC and the calendar's local zone
NowOffsets == {0, SwissOffsetMinutes}

Nows ==
    {DateTime(d * MinutesPerDay + h * 60 + m, o) :
        d \in NowDays, h \in NowHours, m \in NowMinutes, o \in NowOffsets}

\* configured holiday dates: none, the Friday before the weekend, the Monday
\* after it, the Monday and Tuesday after it
HolidaySets == {{}, {4}, {7}, {7, 8}}

CheapStartTimes == {<<21, 0>>, <<21, 30>>}

CheapEndTimes == {<<6, 0>>, <<5, 30>>}

TariffConfigs ==
    {[cheap_start_hour |-> s[1], cheap_start_minute |-> s[2],
      cheap_end_hour |-> e[1], cheap_end_minute |-> e[2],
      weekend_all_day_cheap |-> w, holidays |-> hs] :
        s \in CheapStartTimes, e \in CheapEndTimes,
        w \in BOOLEAN, hs \in HolidaySets}

----------------------------------------------------------------------------
(* Specification of the tariff calendar: get_tariff_periods applied to a  *)
(* drawn configuration and `now`.                                         *)

InitTariff ==
    /\ optimizer \in TariffConfigs
    /\ now \in Nows
    /\ tariff = None
    /\ soc_percent = 0
    /\ forecast = <<>>
    /\ block_from = None
    /\ block_until = None
    /\ sim = <<>>
    /\ result = None
    /\ NoManager
    /\ NoSideCalls
    /\ op = "init"

GetTariffPeriods ==
    /\ op = "init"
    /\ tariff' = get_tariff_periods(optimizer, now)
    /\ op' = "get_tariff_periods"
    /\ UNCHANGED <<optimizer, now, soc_percent, forecast, block_from,
                   block_until, sim, result, manager_vars, side_vars>>

NextTariff == GetTariffPeriods

SpecTariff == InitTariff /\ [][NextTariff]_vars

----------------------------------------------------------------------------
(* Python float arithmetic.  The simulator and the decision compute every  *)
(* energy in floats (IEEE-754 binary64, round to nearest, ties to even),    *)
(* and their tests compare the rounded values, so the model computes in    *)
(* floats too.  A float is [neg, man, exp] and denotes                      *)
(* (-1)^neg * man * 2^exp; man is a natural number of exactly 53 bits,      *)
(* written as a sequence of limbs in base 2^14, least significant first     *)
(* (TLC integers are 32 bits wide), and zero is the empty mantissa.         *)
(* Infinities, NaN and subnormals do not occur at the magnitudes of this    *)
(* program and are not represented; -0.0 is represented as 0.0, from which  *)
(* no comparison and no sum tells it.                                       *)

\* bits of a limb, and bits of the mantissa of a binary64 float
LimbBits == 14

MantissaBits == 53

Base == 2^LimbBits

\* a natural number without leading zero limbs
RECURSIVE big_norm(_)
big_norm(a) ==
    IF a = <<>> THEN a
    ELSE IF a[Len(a)] = 0 THEN big_norm(SubSeq(a, 1, Len(a) - 1))
    ELSE a

\* -1, 0 or 1 as a < b, a = b or a > b
big_cmp(a, b) ==
    LET RECURSIVE cmp_from(_)
        cmp_from(i) ==
            IF i = 0 THEN 0
            ELSE IF a[i] < b[i] THEN -1
            ELSE IF a[i] > b[i] THEN 1
            ELSE cmp_from(i - 1)
    IN IF Len(a) < Len(b) THEN -1
       ELSE IF Len(a) > Len(b) THEN 1
       ELSE cmp_from(Len(a))

\* a + b, limb by limb with the carry
big_add(a, b) ==
    LET limb(c, i) == IF i <= Len(c) THEN c[i] ELSE 0
        RECURSIVE add_from(_, _)
        add_from(i, carry) ==
            LET put(sum) == <<sum % Base>> \o add_from(i + 1, sum \div Base)
            IN IF i > Len(a) /\ i > Len(b)
               THEN IF carry = 0 THEN <<>> ELSE <<carry>>
               ELSE put(limb(a, i) + limb(b, i) + carry)
    IN IF a = <<>> THEN b
       ELSE IF b = <<>> THEN a
       ELSE add_from(1, 0)

\* a - b, for a >= b, limb by limb with the borrow
big_sub(a, b) ==
    LET limb(c, i) == IF i <= Len(c) THEN c[i] ELSE 0
        RECURSIVE sub_from(_, _)
        sub_from(i, borrow) ==
            LET put(diff) == <<diff % Base>> \o sub_from(i + 1, IF diff < 0 THEN 1 ELSE 0)
            IN IF i > Len(a) THEN <<>>
               ELSE put(a[i] - limb(b, i) - borrow)
    IN IF b = <<>> THEN a
       ELSE big_norm(sub_from(1, 0))

\* a * k, for 0 <= k <= Base, limb by limb with the carry
big_mul_small(a, k) ==
    LET RECURSIVE mul_from(_, _)
        mul_from(i, carry) ==
            LET put(product) == <<product % Base>> \o mul_from(i + 1, product \div Base)
            IN IF i > Len(a)
               THEN IF carry = 0 THEN <<>> ELSE <<carry>>
               ELSE put(a[i] * k + carry)
    IN IF a = <<>> \/ k = 0 THEN <<>>
       ELSE IF k = 1 THEN a
       ELSE mul_from(1, 0)

\* a * 2^n
big_shl(a, n) ==
    IF a = <<>> THEN a
    ELSE [i \in 1..(n \div LimbBits) |-> 0] \o big_mul_small(a, 2^(n % LimbBits))

\* a \div 2^n
big_shr(a, n) ==
    IF n \div LimbBits >= Len(a) THEN <<>>
    ELSE LET c == SubSeq(a, n \div LimbBits + 1, Len(a))
             k == n % LimbBits
         IN big_norm([i \in 1..Len(c) |->
                         (c[i] \div 2^k)
                         + ((IF i < Len(c) THEN c[i + 1] ELSE 0) % 2^k) * 2^(LimbBits - k)])

\* a * b: the products of a by the limbs of b, each at the place of its limb
big_mul(a, b) ==
    LET RECURSIVE mul_from(_, _)
        mul_from(i, acc) ==
            IF i > Len(b) THEN acc
            ELSE IF b[i] = 0 THEN mul_from(i + 1, acc)
            ELSE mul_from(i + 1,
                          big_add(acc, [j \in 1..(i - 1) |-> 0] \o big_mul_small(a, b[i])))
    IN IF a = <<>> THEN a ELSE mul_from(1, <<>>)

\* number of bits of a
big_bit_length(a) ==
    IF a = <<>> THEN 0
    ELSE LimbBits * (Len(a) - 1)
         + (CHOOSE n \in 1..LimbBits : 2^(n - 1) <= a[Len(a)] /\ a[Len(a)] < 2^n)

\* long division in base 2^14: the digit q with product p = v * q once
\* p <= r, and what it leaves of the remainder r
RECURSIVE big_digit(_, _, _, _)
big_digit(v, r, q, p) ==
    IF big_cmp(p, r) > 0 THEN big_digit(v, r, q - 1, big_sub(p, v))
    ELSE [q |-> q, rem |-> big_sub(r, p)]

\* the next digit of the quotient: estimated from the two leading limbs of
\* the remainder r, which is never too small when the leading limb of the
\* divisor v is >= Base / 2, and then corrected
big_digit_of(v, r) ==
    LET n == Len(v)
        limb(i) == IF i <= Len(r) THEN r[i] ELSE 0
        estimate == (limb(n + 1) * Base + limb(n)) \div v[n]
        q == IF estimate > Base - 1 THEN Base - 1 ELSE estimate
    IN big_digit(v, r, q, big_mul_small(v, q))

\* the digits of the quotient from limb i of u down, r being the remainder of
\* the limbs above; u and v are the dividend and the divisor times 2^s
RECURSIVE big_div_from(_, _, _, _, _, _)
big_div_from(u, v, s, i, r, quot) ==
    LET put(d) ==
            IF d.q = 0 THEN big_div_from(u, v, s, i - 1, d.rem, <<0>> \o quot)
            ELSE big_div_from(u, v, s, i - 1, d.rem, <<d.q>> \o quot)
    IN IF i = 0 THEN [quot |-> big_norm(quot), rem |-> big_shr(r, s)]
       ELSE put(big_digit_of(v, big_norm(<<u[i]>> \o r)))

\* u by v: the leading limbs of u, one fewer than v has, are the first
\* remainder
big_long_division(u, v, s) ==
    LET lead == IF Len(u) < Len(v) THEN Len(u) ELSE Len(v) - 1
    IN big_div_from(u, v, s, Len(u) - lead, SubSeq(u, Len(u) - lead + 1, Len(u)), <<>>)

\* quotient and remainder of a by b # 0; both are scaled by s bits so that
\* the leading limb of the divisor is >= Base / 2
big_divmod(a, b) ==
    LET s == LimbBits - (big_bit_length(b) - LimbBits * (Len(b) - 1))
    IN IF a = <<>> THEN [quot |-> <<>>, rem |-> <<>>]
       ELSE big_long_division(big_shl(a, s), big_shl(b, s), s)

Float(neg, man, exp) == [neg |-> neg, man |-> man, exp |-> exp]

FloatZero == Float(FALSE, <<>>, 0)

\* the float (-1)^neg * q * 2^e, or the next one up in magnitude when the
\* bits dropped from q were more than a half, or a half and q is odd
float_nearest(neg, q, e, half, above_half) ==
    LET round_up(q1) ==
            IF big_bit_length(q1) > MantissaBits
            THEN Float(neg, big_shr(q1, 1), e + 1)
            ELSE Float(neg, q1, e)
    IN IF ~half THEN Float(neg, q, e)
       ELSE IF ~above_half /\ q[1] % 2 = 0 THEN Float(neg, q, e)
       ELSE round_up(big_add(q, <<1>>))

\* the float nearest to (-1)^neg * n * 2^e, the even mantissa on a tie: of
\* the s bits that do not fit, the highest is the half and the others tell
\* whether n lies above it
float_round(neg, n, e) ==
    LET s == big_bit_length(n) - MantissaBits
        below(i) ==
            IF i * LimbBits <= s - 1 THEN n[i]
            ELSE IF (i - 1) * LimbBits < s - 1
            THEN n[i] % 2^((s - 1) - (i - 1) * LimbBits)
            ELSE 0
        half == (n[(s - 1) \div LimbBits + 1] \div 2^((s - 1) % LimbBits)) % 2 = 1
        above_half == \E i \in 1..Len(n) : below(i) # 0
    IN IF n = <<>> THEN FloatZero
       ELSE IF s <= 0 THEN Float(neg, big_shl(n, -s), e + s)
       ELSE float_nearest(neg, big_shr(n, s), e + s, half, above_half)

\* float(n) of an integer n
float_of_int(n) ==
    LET m == IF n < 0 THEN -n ELSE n
    IN float_round(n < 0,
                   big_norm(<<m % Base, (m \div Base) % Base, m \div (Base * Base)>>),
                   0)

\* -a
float_neg(a) == IF a.man = <<>> THEN a ELSE Float(~a.neg, a.man, a.exp)

\* -1, 0 or 1 as a < b, a == b or a > b
float_cmp(a, b) ==
    LET sign(c) == IF c.man = <<>> THEN 0 ELSE IF c.neg THEN -1 ELSE 1
    IN IF sign(a) # sign(b) THEN (IF sign(a) < sign(b) THEN -1 ELSE 1)
       ELSE IF sign(a) = 0 THEN 0
       ELSE IF a.exp # b.exp THEN (IF a.exp < b.exp THEN -sign(a) ELSE sign(a))
       ELSE sign(a) * big_cmp(a.man, b.man)

\* hi + lo for |hi| >= |lo|, neither zero: the exact sum, rounded
float_add_ordered(hi, lo) ==
    LET d == hi.exp - lo.exp
    IN IF d > MantissaBits + 2 THEN hi
       ELSE float_round(hi.neg,
                        IF hi.neg = lo.neg
                        THEN big_add(big_shl(hi.man, d), lo.man)
                        ELSE big_sub(big_shl(hi.man, d), lo.man),
                        lo.exp)

\* a + b
float_add(a, b) ==
    LET a_larger == a.exp > b.exp \/ (a.exp = b.exp /\ big_cmp(a.man, b.man) >= 0)
    IN IF a.man = <<>> THEN b
       ELSE IF b.man = <<>> THEN a
       ELSE float_add_ordered(IF a_larger THEN a ELSE b, IF a_larger THEN b ELSE a)

\* a - b
float_sub(a, b) == float_add(a, float_neg(b))

\* a * b: the exact product, rounded
float_mul(a, b) ==
    IF a.man = <<>> \/ b.man = <<>> THEN FloatZero
    ELSE float_round(a.neg # b.neg, big_mul(a.man, b.man), a.exp + b.exp)

\* the float nearest to (-1)^neg * 2^e times the exact quotient, of which d
\* holds the integer part and the remainder: one more bit tells that a
\* remainder is left
float_round_quotient(neg, d, e) ==
    float_round(neg,
                IF d.rem = <<>> THEN d.quot ELSE big_add(big_shl(d.quot, 1), <<1>>),
                IF d.rem = <<>> THEN e ELSE e - 1)

\* a / b for b # 0: the quotient to at least 56 bits, rounded
float_truediv(a, b) ==
    IF a.man = <<>> THEN FloatZero
    ELSE float_round_quotient(a.neg # b.neg,
                              big_divmod([i \in 1..4 |-> 0] \o a.man, b.man),
                              a.exp - b.exp - 4 * LimbBits)

\* min(a, b) and max(a, b) of Python: the first argument unless the second is
\* smaller (larger)
float_min(a, b) == IF float_cmp(b, a) < 0 THEN b ELSE a

float_max(a, b) == IF float_cmp(b, a) > 0 THEN b ELSE a

----------------------------------------------------------------------------
(* BatteryOptimizer: SOC trajectory simulator *)

\* the float of the literal 0.95, the default of both efficiencies
DefaultEfficiency == float_truediv(float_of_int(19), float_of_int(20))

\* net_wh * self.charge_efficiency
charge_offered(self, net_wh) == float_mul(net_wh, self.charge_efficiency)

\* -net_wh / self.discharge_efficiency
discharge_needed(self, net_wh) ==
    float_truediv(float_neg(net_wh), self.discharge_efficiency)

\* e_bat = soc_percent / 100 * self.capacity_wh
initial_e_bat(self, soc) ==
    float_mul(float_truediv(float_of_int(soc), float_of_int(100)),
              self.capacity_wh)

\* "soc_percent": e_bat / self.capacity_wh * 100
soc_percent_of(self, e_bat) ==
    float_mul(float_truediv(e_bat, self.capacity_wh), float_of_int(100))

\* plausible slip: the slot at block_until itself is still blocked
in_block_window_until_inclusive(t, b_from, b_until) ==
    /\ b_until # None
    /\ (b_from = None \/ Instant(t) >= Instant(b_from))
    /\ Instant(t) <= Instant(b_until)

\* plausible slip: an absent block_until blocks without end
in_block_window_absent_until_blocks(t, b_from, b_until) ==
    /\ (b_from = None \/ Instant(t) >= Instant(b_from))
    /\ (b_until = None \/ Instant(t) < Instant(b_until))

\* in_block_window: block_until and (block_from is None or t >= block_from)
\* and t < block_until
in_block_window(t, b_from, b_until) ==
    /\ b_until # None
    /\ (b_from = None \/ Instant(t) >= Instant(b_from))
    /\ Instant(t) < Instant(b_until)

\* plausible slip: the room left in the battery is not part of the min()
charge_amount_no_room_limit(self, e_bat, offered) ==
    float_min(offered, self.max_charge_wh_per_15min)

\* charge = min(net_wh * eff, max_charge_wh_per_15min, capacity_wh - e_bat)
charge_amount(self, e_bat, offered) ==
    float_min(float_min(offered, self.max_charge_wh_per_15min),
              float_sub(self.capacity_wh, e_bat))

\* discharge = min(discharge_needed, max_discharge_wh_per_15min, max(0, e_bat))
discharge_amount(self, e_bat, needed) ==
    float_min(float_min(needed, self.max_discharge_wh_per_15min),
              float_max(FloatZero, e_bat))

\* the dict appended to results for a row, with its discharge_wh as updated
\* at the end of the loop body; its "soc_percent" is soc_percent_of its
\* soc_wh
SimulationPoint(t, e_bat, e_bat_unclamped, discharge_wh) ==
    [time |-> t,
     soc_wh |-> e_bat,
     soc_wh_unclamped |-> e_bat_unclamped,
     discharge_wh |-> discharge_wh]

\* if net_wh > 0: the point recorded for the row, and the two tallies after
\* the charge
sim_charge(self, t, e_bat, e_bat_unclamped, net_wh) ==
    [point |-> SimulationPoint(t, e_bat, e_bat_unclamped, FloatZero),
     e_bat |->
         float_add(e_bat, charge_amount(self, e_bat, charge_offered(self, net_wh))),
     e_bat_unclamped |->
         float_min(float_add(e_bat_unclamped, charge_offered(self, net_wh)),
                   self.capacity_wh)]

\* elif discharge_blocked: ... else: ..., with discharge_needed as computed
\* in either branch
sim_deficit(self, t, e_bat, e_bat_unclamped, discharge_blocked, needed) ==
    [point |-> SimulationPoint(t, e_bat, e_bat_unclamped,
                               IF discharge_blocked THEN FloatZero ELSE needed),
     e_bat |->
         IF discharge_blocked THEN e_bat
         ELSE float_max(FloatZero,
                        float_sub(e_bat, discharge_amount(self, e_bat, needed))),
     e_bat_unclamped |-> float_sub(e_bat_unclamped, needed)]

\* plausible slip: the point is recorded after the row's energy is applied
sim_step_records_after(self, e_bat, e_bat_unclamped, row, b_from, b_until) ==
    LET recorded_after(st) ==
            [point |-> SimulationPoint(row.time, st.e_bat, st.e_bat_unclamped,
                                       st.point.discharge_wh),
             e_bat |-> st.e_bat,
             e_bat_unclamped |-> st.e_bat_unclamped]
    IN IF row.net_energy_wh > 0
       THEN recorded_after(sim_charge(self, row.time, e_bat, e_bat_unclamped,
                                      float_of_int(row.net_energy_wh)))
       ELSE recorded_after(
                sim_deficit(self, row.time, e_bat, e_bat_unclamped,
                            in_block_window(row.time, b_from, b_until),
                            discharge_needed(self, float_of_int(row.net_energy_wh))))

\* plausible slip: the block window is tested before the surplus, so a blocked
\* slot neither discharges nor charges
sim_step_block_suppresses_charge(self, e_bat, e_bat_unclamped, row, b_from, b_until) ==
    IF row.net_energy_wh > 0 /\ in_block_window(row.time, b_from, b_until)
    THEN [point |-> SimulationPoint(row.time, e_bat, e_bat_unclamped, FloatZero),
          e_bat |-> e_bat,
          e_bat_unclamped |-> e_bat_unclamped]
    ELSE IF row.net_energy_wh > 0
    THEN sim_charge(self, row.time, e_bat, e_bat_unclamped,
                    float_of_int(row.net_energy_wh))
    ELSE sim_deficit(self, row.time, e_bat, e_bat_unclamped,
                     in_block_window(row.time, b_from, b_until),
                     discharge_needed(self, float_of_int(row.net_energy_wh)))

\* one pass of the loop body: the point recorded for the row, and the two
\* tallies after the row's energy is applied; row.net_energy_wh is drawn from
\* the integers, which a float holds exactly
sim_step(self, e_bat, e_bat_unclamped, row, b_from, b_until) ==
    IF row.net_energy_wh > 0
    THEN sim_charge(self, row.time, e_bat, e_bat_unclamped,
                    float_of_int(row.net_energy_wh))
    ELSE sim_deficit(self, row.time, e_bat, e_bat_unclamped,
                     in_block_window(row.time, b_from, b_until),
                     discharge_needed(self, float_of_int(row.net_energy_wh)))

\* for t, row in forecast.iterrows(): ... over the rows lo..hi, in order: the
\* points recorded for them and the two tallies after row hi.  Several rows
\* are taken as their first half and then their second half from the tallies
\* the first half left, which keeps the depth of the recursion at the
\* logarithm of the number of rows.
RECURSIVE sim_rows(_, _, _, _, _, _, _, _)
sim_rows(self, e_bat, e_bat_unclamped, fc, lo, hi, b_from, b_until) ==
    LET one_row(st) ==
            [points |-> <<st.point>>,
             e_bat |-> st.e_bat,
             e_bat_unclamped |-> st.e_bat_unclamped]
        joined(first, second) ==
            [points |-> first.points \o second.points,
             e_bat |-> second.e_bat,
             e_bat_unclamped |-> second.e_bat_unclamped]
        then_from(mid, first) ==
            joined(first,
                   sim_rows(self, first.e_bat, first.e_bat_unclamped, fc,
                            mid + 1, hi, b_from, b_until))
        halves(mid) ==
            then_from(mid,
                      sim_rows(self, e_bat, e_bat_unclamped, fc, lo, mid,
                               b_from, b_until))
    IN IF lo > hi
       THEN [points |-> <<>>, e_bat |-> e_bat, e_bat_unclamped |-> e_bat_unclamped]
       ELSE IF lo = hi
       THEN one_row(sim_step(self, e_bat, e_bat_unclamped, fc[lo], b_from, b_until))
       ELSE halves((lo + hi) \div 2)

\* the outcome of a call: `raised` is TRUE when it ends in an exception, and
\* `rows` are the rows of the DataFrame it returns otherwise
Frame(rows) == [raised |-> FALSE, rows |-> rows]

RaisedKeyError == [raised |-> TRUE, rows |-> <<>>]

\* pd.DataFrame(results).set_index("time"): a frame built from an empty list
\* has no columns, and set_index raises KeyError for the missing "time"
set_index_time(results) ==
    IF results = <<>> THEN RaisedKeyError ELSE Frame(results)

\* e_bat_unclamped = e_bat; results = []; the loop; the return
simulate_from(self, e_bat, fc, b_from, b_until) ==
    set_index_time(
        sim_rows(self, e_bat, e_bat, fc, 1, Len(fc), b_from, b_until).points)

\* the returned DataFrame, indexed by time, with rows
\* [time, soc_wh, soc_wh_unclamped, discharge_wh] of floats; the column
\* soc_percent of a row is soc_percent_of its soc_wh
simulate_soc(self, soc, fc, b_from, b_until) ==
    simulate_from(self, initial_e_bat(self, soc), fc, b_from, b_until)

----------------------------------------------------------------------------
(* Inputs of the simulator *)

\* longest forecast drawn, in slots
MaxLen == 3

\* default battery: capacity_wh, max_charge_w * 0.25, max_discharge_w * 0.25
DefaultCapacityWh == 10000

DefaultMaxChargeWhPer15Min == 1250

DefaultMaxDischargeWhPer15Min == 1250

\* one-way efficiencies drawn: the default 0.95 and the lossless 1.0
Efficiencies == {DefaultEfficiency, float_of_int(1)}

BatteryConfigs ==
    {[capacity_wh |-> float_of_int(DefaultCapacityWh),
      charge_efficiency |-> e, discharge_efficiency |-> e,
      max_charge_wh_per_15min |-> float_of_int(DefaultMaxChargeWhPer15Min),
      max_discharge_wh_per_15min |-> float_of_int(DefaultMaxDischargeWhPer15Min)] :
        e \in Efficiencies}

\* net_energy_wh of a slot: deficits below and above the discharge cap, a
\* balanced slot, surpluses below and above the charge cap
SimNetValues == {-2000, -400, 0, 300, 2000}

\* starting SOC in percent: empty, low, half, full; 7 / 100 * 10000 is
\* 700.0000000000001 in floats
SimSocs == {0, 7, 50, 100}

\* forecast of the given net energies on consecutive slots from `start` (UTC)
forecast_from(start, nets) ==
    [i \in 1..Len(nets) |->
        [time |-> DateTime(start + (i - 1) * SlotMinutes, 0),
         net_energy_wh |-> nets[i]]]

NetSeqs(values) == UNION {[1..n -> values] : n \in 0..MaxLen}

\* first timestamp of the forecasts of the simulator runs: day 3, 05:30 UTC
SimStart == 3 * MinutesPerDay + 5 * 60 + 30

SimForecasts == {forecast_from(SimStart, nets) : nets \in NetSeqs(SimNetValues)}

SimBlockFroms == {None, DateTime(SimStart + SlotMinutes, 0)}

SimBlockUntils ==
    {None, DateTime(SimStart + SlotMinutes, 0),
     DateTime(SimStart + 3 * SlotMinutes, 0)}

----------------------------------------------------------------------------
(* Specification of the simulator: simulate_soc applied to drawn inputs.  *)

InitSim ==
    /\ optimizer \in BatteryConfigs
    /\ now = None
    /\ tariff = None
    /\ soc_percent \in SimSocs
    /\ forecast \in SimForecasts
    /\ block_from \in SimBlockFroms
    /\ block_until \in SimBlockUntils
    /\ sim = <<>>
    /\ result = None
    /\ NoManager
    /\ NoSideCalls
    /\ op = "init"

\* a call of simulate_soc: `sim` takes the rows returned, and `op` tells a
\* call that returned from one that raised
SimulateSoc ==
    /\ op = "init"
    /\ LET r == simulate_soc(optimizer, soc_percent, forecast,
                             block_from, block_until)
       IN /\ sim' = r.rows
          /\ op' = IF r.raised THEN "simulate_soc raised" ELSE "simulate_soc"
    /\ UNCHANGED <<optimizer, now, tariff, soc_percent, forecast,
                   block_from, block_until, result, manager_vars, side_vars>>

NextSim == SimulateSoc

SpecSim == InitSim /\ [][NextSim]_vars

----------------------------------------------------------------------------
(* BatteryOptimizer: discharge decision *)

DischargeDecision(discharge_allowed, switch_on_time, reason, deficit_wh, saved_wh) ==
    [discharge_allowed |-> discharge_allowed,
     switch_on_time |-> switch_on_time,
     reason |-> reason,
     deficit_wh |-> deficit_wh,
     saved_wh |-> saved_wh]

\* the returned tuple (decision, sim_no_strategy, sim_with_strategy); `raised`
\* is TRUE when the call ends in an exception instead of returning
Returned(decision, sim_no_strategy, sim_with_strategy) ==
    [raised |-> FALSE, decision |-> decision,
     sim_no_strategy |-> sim_no_strategy,
     sim_with_strategy |-> sim_with_strategy]

\* plausible slip: failing closed when there is no forecast
no_forecast_decision_blocks ==
    DischargeDecision(FALSE, None, "No forecast data", FloatZero, FloatZero)

\* the decision returned for an empty forecast
no_forecast_decision ==
    DischargeDecision(TRUE, None, "No forecast data", FloatZero, FloatZero)

\* deficit_wh = max(0, -sim_full_no_strategy["soc_wh_unclamped"].iloc[-1])
deficit_at_target(sim_full_no_strategy) ==
    float_max(FloatZero,
              float_neg(sim_full_no_strategy[Len(sim_full_no_strategy)].soc_wh_unclamped))

\* sim_full_no_strategy[(index >= cheap_start) & (index < cheap_end)]
rows_in_cheap_period(sim_full_no_strategy, tp) ==
    SelectSeq(sim_full_no_strategy,
              LAMBDA r : /\ Instant(r.time) >= Instant(tp.cheap_start)
                         /\ Instant(r.time) < Instant(tp.cheap_end))

\* plausible slip: the threshold is tested before the row's discharge is added,
\* so the switch comes one row late
RECURSIVE accumulate_savings_tests_before_adding(_, _, _, _, _)
accumulate_savings_tests_before_adding(forecast_cheap, i, saved_wh, deficit_wh, switch_on_time) ==
    IF i > Len(forecast_cheap)
    THEN [saved_wh |-> saved_wh, switch_on_time |-> switch_on_time]
    ELSE LET row == forecast_cheap[i]
         IN IF float_cmp(saved_wh, deficit_wh) >= 0
            THEN [saved_wh |-> saved_wh, switch_on_time |-> row.time]
            ELSE accumulate_savings_tests_before_adding(
                     forecast_cheap, i + 1,
                     IF float_cmp(row.discharge_wh, FloatZero) > 0
                     THEN float_add(saved_wh, row.discharge_wh)
                     ELSE saved_wh,
                     deficit_wh, switch_on_time)

\* for t, row in forecast_cheap.iterrows(): accumulate discharge_wh and stop at
\* the first row where saved_wh >= deficit_wh; from row i on
RECURSIVE accumulate_savings(_, _, _, _, _)
accumulate_savings(forecast_cheap, i, saved_wh, deficit_wh, switch_on_time) ==
    IF i > Len(forecast_cheap)
    THEN [saved_wh |-> saved_wh, switch_on_time |-> switch_on_time]
    ELSE LET row == forecast_cheap[i]
             saved == IF float_cmp(row.discharge_wh, FloatZero) > 0
                      THEN float_add(saved_wh, row.discharge_wh)
                      ELSE saved_wh
         IN IF float_cmp(saved, deficit_wh) >= 0
            THEN [saved_wh |-> saved, switch_on_time |-> row.time]
            ELSE accumulate_savings(forecast_cheap, i + 1, saved, deficit_wh,
                                    switch_on_time)

\* plausible slip: the expensive tariff is not special-cased
discharge_allowed_now_no_expensive_case(tp, now_arg, switch_on_time) ==
    Instant(now_arg) >= Instant(switch_on_time)

\* if not tariff.is_cheap_now: True; elif now >= switch_on_time: True;
\* else: False
discharge_allowed_now(tp, now_arg, switch_on_time) ==
    IF ~tp.is_cheap_now
    THEN TRUE
    ELSE Instant(now_arg) >= Instant(switch_on_time)

\* the reason f-strings, by their fixed text
decision_reason(tp, now_arg, switch_on_time, saved_wh, deficit_wh) ==
    IF ~tp.is_cheap_now
    THEN "Expensive tariff - tonight block until"
    ELSE IF Instant(now_arg) >= Instant(switch_on_time)
    THEN "Cheap tariff - discharge enabled"
    ELSE IF float_cmp(saved_wh, deficit_wh) < 0
    THEN "Block discharge until - (shortfall)"
    ELSE "Block discharge until"

\* calculate_decision from Step 2 on: the decision and the two trajectories,
\* from the local variables `tariff` and `sim_full_no_strategy`
decision_from(self, soc, fc, now_arg, tp, sim_full_no_strategy) ==
    LET deficit_wh == deficit_at_target(sim_full_no_strategy)
    IN
    IF float_cmp(deficit_wh, FloatZero) <= 0
    THEN IF tp.is_cheap_now
         THEN Returned(
                  DischargeDecision(FALSE, tp.cheap_end,
                                    "Cheap tariff - blocking to charge",
                                    FloatZero, FloatZero),
                  sim_full_no_strategy,
                  simulate_soc(self, soc, fc, tp.cheap_start, tp.cheap_end).rows)
         ELSE Returned(
                  DischargeDecision(TRUE, None, "No deficit - SOC at target",
                                    FloatZero, FloatZero),
                  sim_full_no_strategy,
                  simulate_soc(self, soc, fc, tp.cheap_start, tp.cheap_end).rows)
    ELSE
    LET acc == accumulate_savings(
                   rows_in_cheap_period(sim_full_no_strategy, tp),
                   1, FloatZero, deficit_wh, tp.cheap_end)
    IN Returned(
           DischargeDecision(
               discharge_allowed_now(tp, now_arg, acc.switch_on_time),
               acc.switch_on_time,
               decision_reason(tp, now_arg, acc.switch_on_time,
                               acc.saved_wh, deficit_wh),
               deficit_wh,
               acc.saved_wh),
           sim_full_no_strategy,
           simulate_soc(self, soc, fc, tp.cheap_start,
                        acc.switch_on_time).rows)

calculate_decision(self, soc, fc, now_arg) ==
    LET tp == get_tariff_periods(self, now_arg)
    IN
    IF fc = <<>>
    THEN Returned(no_forecast_decision, <<>>, <<>>)
    ELSE decision_from(self, soc, fc, now_arg, tp,
                       simulate_soc(self, soc, fc, None, None).rows)

----------------------------------------------------------------------------
(* Inputs of the decision *)

\* the default tariff (21:00 - 06:00, no holidays), weekend flag on or off,
\* with the default battery (efficiency 0.95)
DecisionConfigs ==
    {[cheap_start_hour |-> 21, cheap_start_minute |-> 0,
      cheap_end_hour |-> 6, cheap_end_minute |-> 0,
      weekend_all_day_cheap |-> w, holidays |-> {},
      capacity_wh |-> float_of_int(DefaultCapacityWh),
      charge_efficiency |-> DefaultEfficiency,
      discharge_efficiency |-> DefaultEfficiency,
      max_charge_wh_per_15min |-> float_of_int(DefaultMaxChargeWhPer15Min),
      max_discharge_wh_per_15min |-> float_of_int(DefaultMaxDischargeWhPer15Min)] :
        w \in BOOLEAN}

\* Monday and Saturday
DecisionDays == {0, 5}

\* clock times of `now`: before and across the morning cheap-end, midday,
\* before and across the evening cheap-start, late evening; two of them off
\* the slot grid
DecisionClockTimes ==
    {<<5, 30>>, <<5, 40>>, <<12, 0>>, <<20, 30>>, <<20, 40>>, <<22, 0>>}

\* `now` in UTC, as run_optimization passes it
DecisionNows ==
    {DateTime(d * MinutesPerDay + c[1] * 60 + c[2], 0) :
        d \in DecisionDays, c \in DecisionClockTimes}

\* net_energy_wh of a slot: a deficit above the discharge cap, a deficit
\* below it, two deficits that take 400 Wh from the battery between them
\* (200 / 0.95 + 180 / 0.95), where 400 - 200 / 0.95 - 180 / 0.95 is
\* -2.8e-14 in floats, a balanced slot, a surplus above the charge cap
DecisionNetValues == {-2000, -400, -200, -180, 0, 2000}

\* starting SOC in percent: empty, 400 Wh, half, full
DecisionSocs == {0, 4, 50, 100}

\* forecasts starting at the slot of `now`, as run_optimization requests them
DecisionForecasts(now_arg) ==
    {forecast_from(Instant(floor_to_slot(now_arg)), nets) :
        nets \in NetSeqs(DecisionNetValues)}

----------------------------------------------------------------------------
(* Specification of the decision: calculate_decision applied to drawn     *)
(* inputs.                                                                *)

InitDecision ==
    /\ optimizer \in DecisionConfigs
    /\ now \in DecisionNows
    /\ tariff = None
    /\ soc_percent \in DecisionSocs
    /\ forecast \in DecisionForecasts(now)
    /\ block_from = None
    /\ block_until = None
    /\ sim = <<>>
    /\ result = None
    /\ NoManager
    /\ NoSideCalls
    /\ op = "init"

CalculateDecision ==
    /\ op = "init"
    /\ result' = calculate_decision(optimizer, soc_percent, forecast, now)
    /\ op' = "calculate_decision"
    /\ UNCHANGED <<optimizer, now, tariff, soc_percent, forecast,
                   block_from, block_until, sim, manager_vars, side_vars>>

NextDecision == CalculateDecision

SpecDecision == InitDecision /\ [][NextDecision]_vars

----------------------------------------------------------------------------
(* Specification of the decision on forecasts that are not a run of       *)
(* consecutive slots: calculate_decision applied to three rows with a gap, *)
(* a duplicate timestamp or an out-of-order timestamp.                     *)

\* positions of three rows on the slot grid: a gap, a duplicate timestamp, an
\* out-of-order timestamp
IrregularSlotOffsets == {<<0, 1, 3>>, <<0, 1, 1>>, <<0, 2, 1>>}

IrregularNetValues == {-400, 2000}

\* rows at the given slot offsets from `start` (UTC), in the given order
irregular_forecast(start, offsets, nets) ==
    [i \in 1..Len(offsets) |->
        [time |-> DateTime(start + offsets[i] * SlotMinutes, 0),
         net_energy_wh |-> nets[i]]]

IrregularForecasts(now_arg) ==
    {irregular_forecast(Instant(floor_to_slot(now_arg)), o, nets) :
        o \in IrregularSlotOffsets, nets \in [1..3 -> IrregularNetValues]}

InitIrregular ==
    /\ optimizer \in DecisionConfigs
    /\ now \in DecisionNows
    /\ tariff = None
    /\ soc_percent \in DecisionSocs
    /\ forecast \in IrregularForecasts(now)
    /\ block_from = None
    /\ block_until = None
    /\ sim = <<>>
    /\ result = None
    /\ NoManager
    /\ NoSideCalls
    /\ op = "init"

SpecIrregular == InitIrregular /\ [][NextDecision]_vars

----------------------------------------------------------------------------
(* Specification of the decision on forecasts that reach past the target: *)
(* run_optimization requests the forecast from the slot of `now` to at     *)
(* least one hour after tariff.target.  The forecasts drawn here hold one  *)
(* value on every slot up to two slots before the target, and drawn values *)
(* on the two slots before the target and the two slots from the target on.*)

\* Monday 05:30, UTC: the morning cheap period, whose target is 21:00 of the
\* same day
HorizonNows == {DateTime(5 * 60 + 30, 0)}

HorizonSocs == {0, 50}

\* net_energy_wh on every slot of the flat part
HorizonFlatValues == {0, -100}

\* net_energy_wh on the four slots around the target
HorizonTailValues == {-2000, 0, 2000}

\* number of slots of the tail, of which the last two are at or after target
HorizonTailLen == 4

\* number of slots from `start` up to, not including, instant `until`
slots_until(start, until) == (until - start) \div SlotMinutes

\* the forecast from the slot of `now` to two slots past the target
horizon_forecast(now_arg, target, flat, tail) ==
    LET start == Instant(floor_to_slot(now_arg))
        k == slots_until(start, Instant(target)) - 2
    IN forecast_from(start,
                     [i \in 1..(k + Len(tail)) |->
                         IF i <= k THEN flat ELSE tail[i - k]])

HorizonForecasts(self, now_arg) ==
    {horizon_forecast(now_arg, get_tariff_periods(self, now_arg).target,
                      flat, tail) :
        flat \in HorizonFlatValues,
        tail \in [1..HorizonTailLen -> HorizonTailValues]}

InitHorizon ==
    /\ optimizer \in DecisionConfigs
    /\ now \in HorizonNows
    /\ tariff = None
    /\ soc_percent \in HorizonSocs
    /\ forecast \in HorizonForecasts(optimizer, now)
    /\ block_from = None
    /\ block_until = None
    /\ sim = <<>>
    /\ result = None
    /\ NoManager
    /\ NoSideCalls
    /\ op = "init"

SpecHorizon == InitHorizon /\ [][NextDecision]_vars

----------------------------------------------------------------------------
(* Specification of concurrent callers: threads of one host call           *)
(* calculate_decision on the same BatteryOptimizer, each with arguments of *)
(* its own, and their steps interleave.  Here `now`, `soc_percent` and     *)
(* `forecast` hold the arguments of each thread, `tariff` and `sim` the    *)
(* local variables tariff and sim_full_no_strategy of each thread's call,  *)
(* `result` what each call returned, and `op` each thread's position.      *)

\* number of calling threads
MaxThreads == 2

Threads == 1..MaxThreads

\* midday (expensive) and late evening (cheap) of Monday, UTC
ThreadNows == {DateTime(12 * 60, 0), DateTime(22 * 60, 0)}

ThreadSocs == {0, 50}

\* no forecast, a deficit, a balanced forecast
ThreadNetSeqs == {<<>>, <<-400, -400>>, <<0, 0>>}

\* plausible slip: the value is kept on self, where every caller reads it
store_on_self(locals, t, value) == [u \in DOMAIN locals |-> value]

\* assignment to a local variable of thread t's call: each call has a frame
\* of its own
store_local(locals, t, value) == [locals EXCEPT ![t] = value]

InitThreads ==
    /\ optimizer \in DecisionConfigs
    /\ now \in [Threads -> ThreadNows]
    /\ soc_percent \in [Threads -> ThreadSocs]
    /\ \E nets \in [Threads -> ThreadNetSeqs] :
           forecast = [t \in Threads |->
                          forecast_from(Instant(floor_to_slot(now[t])), nets[t])]
    /\ tariff = [t \in Threads |-> None]
    /\ sim = [t \in Threads |-> <<>>]
    /\ result = [t \in Threads |-> None]
    /\ block_from = None
    /\ block_until = None
    /\ NoManager
    /\ NoSideCalls
    /\ op = [t \in Threads |-> "init"]

\* tariff = self.get_tariff_periods(now)
ThreadGetTariff(t) ==
    /\ op[t] = "init"
    /\ tariff' = store_local(tariff, t, get_tariff_periods(optimizer, now[t]))
    /\ op' = [op EXCEPT ![t] = "get_tariff_periods"]
    /\ UNCHANGED <<optimizer, now, soc_percent, forecast, block_from,
                   block_until, sim, result, manager_vars, side_vars>>

\* if forecast.empty: return the no-forecast decision
ThreadReturnNoForecast(t) ==
    /\ op[t] = "get_tariff_periods"
    /\ forecast[t] = <<>>
    /\ result' = [result EXCEPT
                      ![t] = Returned(no_forecast_decision, <<>>, <<>>)]
    /\ op' = [op EXCEPT ![t] = "returned"]
    /\ UNCHANGED <<optimizer, now, tariff, soc_percent, forecast, block_from,
                   block_until, sim, manager_vars, side_vars>>

\* sim_full_no_strategy = self.simulate_soc(soc_percent, forecast)
ThreadSimulate(t) ==
    /\ op[t] = "get_tariff_periods"
    /\ forecast[t] # <<>>
    /\ sim' = store_local(sim, t,
                          simulate_soc(optimizer, soc_percent[t], forecast[t],
                                       None, None).rows)
    /\ op' = [op EXCEPT ![t] = "simulate_soc"]
    /\ UNCHANGED <<optimizer, now, tariff, soc_percent, forecast, block_from,
                   block_until, result, manager_vars, side_vars>>

\* Steps 2 to 5 and the return, from the call's local variables
ThreadDecide(t) ==
    /\ op[t] = "simulate_soc"
    /\ result' = [result EXCEPT
                      ![t] = decision_from(optimizer, soc_percent[t],
                                           forecast[t], now[t], tariff[t],
                                           sim[t])]
    /\ op' = [op EXCEPT ![t] = "returned"]
    /\ UNCHANGED <<optimizer, now, tariff, soc_percent, forecast, block_from,
                   block_until, sim, manager_vars, side_vars>>

NextThreads ==
    \E t \in Threads :
        \/ ThreadGetTariff(t)
        \/ ThreadReturnNoForecast(t)
        \/ ThreadSimulate(t)
        \/ ThreadDecide(t)

SpecThreads == InitThreads /\ [][NextThreads]_vars

----------------------------------------------------------------------------
(* HAClient and EnergyManager: the optimization cycle *)

\* control_battery: 5000 W when discharge is allowed, 0 W when blocked
AllowedDischargeW == 5000

BlockedDischargeW == 0

\* control_battery passes max_retries=5
ControlMaxRetries == 5

\* what requests.post / raise_for_status does to one attempt
PostOutcomes == {"ok", "Timeout", "ConnectionError", "HTTPError", "Exception"}

\* the text of last_error, by the kind of the exception and the attempt
ErrorMessage(kind, attempt) == [kind |-> kind, attempt |-> attempt]

\* last_error = ""
NoErrorMessage == ErrorMessage("", 0)

\* the position of a call of set_number before its first statement:
\* `responses[i]` is what the server does to the i-th POST
new_set_number_call(token, max_retries, responses) ==
    [token |-> token, max_retries |-> max_retries, responses |-> responses,
     pc |-> "enter", attempt |-> 0, posts |-> 0, sleeps |-> 0,
     last_error |-> NoErrorMessage,
     returned |-> [success |-> FALSE, error |-> NoErrorMessage]]

\* plausible slip: range(1, max_retries + 2), one attempt too many; a POST
\* beyond the planned responses fails like the last one
set_number_step_one_attempt_more(call) ==
    IF call.pc = "enter"
    THEN IF ~call.token
         THEN [call EXCEPT !.pc = "done",
                           !.returned =
                               [success |-> FALSE,
                                error |-> ErrorMessage("No HA token available", 0)]]
         ELSE [call EXCEPT !.attempt = 1, !.pc = "post"]
    ELSE IF call.pc = "post"
    THEN LET outcome == IF call.attempt <= Len(call.responses)
                        THEN call.responses[call.attempt]
                        ELSE "ConnectionError"
         IN IF outcome = "ok"
            THEN [call EXCEPT !.posts = call.posts + 1,
                              !.pc = "done",
                              !.returned = [success |-> TRUE,
                                            error |-> NoErrorMessage]]
            ELSE [call EXCEPT !.posts = call.posts + 1,
                              !.last_error = ErrorMessage(outcome, call.attempt),
                              !.pc = IF call.attempt < call.max_retries + 1
                                     THEN "sleep" ELSE "fail"]
    ELSE IF call.pc = "sleep"
    THEN [call EXCEPT !.sleeps = call.sleeps + 1,
                      !.attempt = call.attempt + 1,
                      !.pc = "post"]
    ELSE IF call.pc = "fail"
    THEN [call EXCEPT !.pc = "done",
                      !.returned = [success |-> FALSE,
                                    error |-> call.last_error]]
    ELSE call

\* HAClient.set_number, one step from the position call.pc:
\*   "enter": the token test, and the entry of the for loop
\*   "post":  one pass of the try block: the POST and its except clauses
\*   "sleep": time.sleep(retry_delay) and the next value of `attempt`
\*   "fail":  the return after the loop
set_number_step(call) ==
    IF call.pc = "enter"
    THEN IF ~call.token
         THEN [call EXCEPT !.pc = "done",
                           !.returned =
                               [success |-> FALSE,
                                error |-> ErrorMessage("No HA token available", 0)]]
         ELSE IF call.max_retries >= 1
         THEN [call EXCEPT !.attempt = 1, !.pc = "post"]
         ELSE [call EXCEPT !.pc = "fail"]
    ELSE IF call.pc = "post"
    THEN LET outcome == call.responses[call.attempt]
         IN IF outcome = "ok"
            THEN [call EXCEPT !.posts = call.posts + 1,
                              !.pc = "done",
                              !.returned = [success |-> TRUE,
                                            error |-> NoErrorMessage]]
            ELSE [call EXCEPT !.posts = call.posts + 1,
                              !.last_error = ErrorMessage(outcome, call.attempt),
                              !.pc = IF call.attempt < call.max_retries
                                     THEN "sleep" ELSE "fail"]
    ELSE IF call.pc = "sleep"
    THEN [call EXCEPT !.sleeps = call.sleeps + 1,
                      !.attempt = call.attempt + 1,
                      !.pc = "post"]
    ELSE IF call.pc = "fail"
    THEN [call EXCEPT !.pc = "done",
                      !.returned = [success |-> FALSE,
                                    error |-> call.last_error]]
    ELSE call

\* the call run to its return
RECURSIVE set_number_run(_)
set_number_run(call) ==
    IF call.pc = "done"
    THEN call
    ELSE set_number_run(set_number_step(call))

\* HAClient.token, read anew at every access: the token given to __init__,
\* else SUPERVISOR_TOKEN or HASSIO_TOKEN of the environment, else the content
\* of /run/secrets/supervisor_token, else None.  The file belongs to the
\* supervisor and may be there at one access and not at the next:
\* `file_token` is whether this access finds a token in it
HAClient_token(self, file_token) ==
    IF self.provided_token THEN TRUE
    ELSE IF self.environment_token THEN TRUE
    ELSE file_token

\* notifications.send_telegram: nothing is sent unless bot token and chat id
\* are both set; a request that fails is logged and not raised.  The value is
\* whether the message was sent; `outcome` is what requests.post does
send_telegram(telegram_config, outcome) ==
    IF ~telegram_config.bot_token \/ ~telegram_config.chat_id
    THEN FALSE
    ELSE outcome = "ok"

\* notifications.notify_error
notify_error(telegram_config, outcome) == send_telegram(telegram_config, outcome)

\* EnergyManager.control_battery from its first statement to the call of
\* set_number: None when it returns at once (value unchanged, or no token
\* at this access), else the caller about to enter set_number: its argument,
\* the power it sends and its position in HAClient.set_number, which reads
\* the token again on entry.  `responses` holds what the server did to the
\* POSTs made so far
control_battery_enter(last, token, discharge_allowed) ==
    IF Some(discharge_allowed) = last
    THEN None
    ELSE IF ~token
    THEN None
    ELSE [discharge_allowed |-> discharge_allowed,
          value |-> IF discharge_allowed
                    THEN AllowedDischargeW ELSE BlockedDischargeW,
          pc |-> "set_number",
          call |-> new_set_number_call(token, ControlMaxRetries, <<>>)]

\* EnergyManager.control_battery after set_number: the return of set_number,
\* then last_discharge_allowed written on success, notify_error called on
\* failure
control_battery_return(last, caller) ==
    LET returned == set_number_run(caller.call).returned
    IN IF returned.success
       THEN [last |-> Some(caller.discharge_allowed),
             success |-> TRUE, notify_called |-> FALSE]
       ELSE [last |-> last, success |-> FALSE, notify_called |-> TRUE]

\* EnergyManager.get_current_soc: the value of Home Assistant, else the
\* value of InfluxDB, else 50 %
get_current_soc(ha_soc, influx_soc) ==
    IF ha_soc # None THEN ha_soc.some
    ELSE IF influx_soc # None THEN influx_soc.some
    ELSE 50

\* ForecastReader.get_combined_forecast after its two queries: an empty frame
\* when either series is empty, else the rows of the common timestamps in the
\* requested range, `nets` being their net energies
get_combined_forecast(pv_empty, load_empty, start, nets) ==
    IF pv_empty \/ load_empty THEN <<>> ELSE forecast_from(start, nets)

\* the configuration of the running application: all defaults
ManagerConfig ==
    [cheap_start_hour |-> 21, cheap_start_minute |-> 0,
     cheap_end_hour |-> 6, cheap_end_minute |-> 0,
     weekend_all_day_cheap |-> TRUE, holidays |-> {},
     capacity_wh |-> float_of_int(DefaultCapacityWh),
     charge_efficiency |-> DefaultEfficiency,
     discharge_efficiency |-> DefaultEfficiency,
     max_charge_wh_per_15min |-> float_of_int(DefaultMaxChargeWhPer15Min),
     max_discharge_wh_per_15min |-> float_of_int(DefaultMaxDischargeWhPer15Min)]

\* HAClient as constructed: with a token in the options, or with none in
\* the options and none in the environment of the process (the token file is
\* then the only source)
HAClientConfigs ==
    {[provided_token |-> TRUE, environment_token |-> FALSE],
     [provided_token |-> FALSE, environment_token |-> FALSE]}

\* what init_telegram leaves in _BOT_TOKEN and _CHAT_ID: nothing (the
\* default), or both
TelegramConfigs ==
    {[bot_token |-> FALSE, chat_id |-> FALSE],
     [bot_token |-> TRUE, chat_id |-> TRUE]}

\* wall-clock times (UTC) at which cycles run: Monday 12:00 and 22:00
CycleNows == {DateTime(12 * 60, 0), DateTime(22 * 60, 0)}

\* the SOC Home Assistant or InfluxDB reports when it answers
CycleSocs == {50}

\* the net energies of the combined forecast: no common timestamp, or a
\* deficit followed by a surplus
CycleNetSeqs == {<<>>, <<-2000, 2000>>}

\* optimizer.calculate_decision(soc, forecast, now) of every cycle drawn,
\* computed once
CycleDecisions ==
    [n \in CycleNows, soc \in CycleSocs, nets \in CycleNetSeqs \ {<<>>} |->
        calculate_decision(ManagerConfig, soc,
                           forecast_from(Instant(floor_to_slot(n)), nets), n)]

\* what requests.post does to a POST of control_battery
ControlPostOutcomes == {"ok", "ConnectionError"}

\* what requests.post does to the message of send_telegram
TelegramPostOutcomes == {"ok", "RequestException"}

\* what a query of InfluxDB for a forecast series does
QueryOutcomes == {"data", "empty", "raises"}

\* what the last step of the manager did: the thread that took it (0 is the
\* scheduler), the value of last_discharge_allowed before it, the forecast a
\* cycle found and whether a decision was computed; whether control_battery
\* was entered and with which argument, how many POSTs the call has made,
\* whether it delivered its command, whether notify_error was called and
\* whether the notification was sent
CycleRecord(caller, last, empty, decided, called, arg, attempts, delivered, notify_called, notified) ==
    [caller |-> caller, last_before |-> last,
     forecast_empty |-> empty, decided |-> decided,
     control_called |-> called, discharge_allowed |-> arg,
     attempts |-> attempts, delivered |-> delivered,
     notify_called |-> notify_called, notified |-> notified]

\* the step was one of run_optimization before its end
CycleInProgress ==
    CycleRecord(0, last_discharge_allowed, FALSE, FALSE, FALSE, None,
                0, FALSE, FALSE, FALSE)

\* the scheduler thread outside run_optimization
SchedulerIdle == [pc |-> "idle", pv_empty |-> FALSE]

InitManager ==
    /\ optimizer = ManagerConfig
    /\ now = None
    /\ tariff = None
    /\ soc_percent = 0
    /\ forecast = <<>>
    /\ block_from = None
    /\ block_until = None
    /\ sim = <<>>
    /\ result = None
    /\ last_discharge_allowed = None
    /\ battery_w \in {BlockedDischargeW, AllowedDischargeW}
    /\ ha_client \in HAClientConfigs
    /\ telegram \in TelegramConfigs
    /\ scheduler = SchedulerIdle
    /\ callers = [t \in Threads |-> None]
    /\ overlapped = FALSE
    /\ cycle = None
    /\ NoSideCalls
    /\ op = "init"

\* what a step of run_optimization leaves alone: everything but its locals
\* and the position of the scheduler thread
RunUnchanged ==
    UNCHANGED <<optimizer, block_from, block_until, sim,
                last_discharge_allowed, battery_w, ha_client, telegram,
                callers, overlapped, side_vars>>

\* a cycle begins (the first from start(), the later ones from the scheduler,
\* one at a time: max_instances=1) and asks Home Assistant for the SOC
RunOptimizationStart ==
    /\ scheduler.pc = "idle"
    /\ \E n \in CycleNows : IF now = None THEN TRUE ELSE Instant(n) > Instant(now)
    /\ scheduler' = [pc |-> "get_battery_soc", pv_empty |-> FALSE]
    /\ tariff' = None
    /\ soc_percent' = 0
    /\ forecast' = <<>>
    /\ result' = None
    /\ cycle' = CycleInProgress
    /\ op' = "run_optimization: get_battery_soc"
    /\ UNCHANGED now
    /\ RunUnchanged

\* run_optimization from the SOC to the first query of get_combined_forecast:
\* the clock is read, the tariff periods computed and the range requested
RunOptimizationFetch(n, soc) ==
    /\ (IF now = None THEN TRUE ELSE Instant(n) > Instant(now))
    /\ now' = n
    /\ soc_percent' = soc
    /\ tariff' = get_tariff_periods(optimizer, n)
    /\ scheduler' = [pc |-> "get_pv_forecast", pv_empty |-> FALSE]
    /\ op' = "run_optimization: get_pv_forecast"

\* HAClient.get_battery_soc returns: None without a token or when the
\* request or the parsing fails, and the cycle turns to InfluxDB; else the SOC
RunGetBatterySoc ==
    /\ scheduler.pc = "get_battery_soc"
    /\ \E file_token \in BOOLEAN, answer \in {None} \cup {Some(s) : s \in CycleSocs} :
           LET ha_soc == IF HAClient_token(ha_client, file_token)
                         THEN answer ELSE None
           IN IF ha_soc = None
              THEN /\ scheduler' = [pc |-> "get_current_soc", pv_empty |-> FALSE]
                   /\ op' = "run_optimization: get_current_soc"
                   /\ UNCHANGED <<now, soc_percent, tariff>>
              ELSE \E n \in CycleNows :
                       RunOptimizationFetch(n, get_current_soc(ha_soc, None))
    /\ cycle' = CycleInProgress
    /\ UNCHANGED <<forecast, result>>
    /\ RunUnchanged

\* ForecastReader.get_current_soc returns the SOC of InfluxDB, or None when
\* there is no record or the query fails, and the cycle goes on with 50 %
RunGetInfluxSoc ==
    /\ scheduler.pc = "get_current_soc"
    /\ \E n \in CycleNows, influx_soc \in {None} \cup {Some(s) : s \in CycleSocs} :
           RunOptimizationFetch(n, get_current_soc(None, influx_soc))
    /\ cycle' = CycleInProgress
    /\ UNCHANGED <<forecast, result>>
    /\ RunUnchanged

\* run_optimization ends in its except clause: the exception is logged
RunOptimizationQueryRaises ==
    /\ scheduler' = SchedulerIdle
    /\ cycle' = CycleInProgress
    /\ op' = "run_optimization: query failed"
    /\ UNCHANGED <<forecast, result>>

\* get_pv_forecast returns a series, or its query raises
RunGetPvForecast ==
    /\ scheduler.pc = "get_pv_forecast"
    /\ \E outcome \in QueryOutcomes :
           IF outcome = "raises"
           THEN RunOptimizationQueryRaises
           ELSE /\ scheduler' = [pc |-> "get_load_forecast",
                                 pv_empty |-> (outcome = "empty")]
                /\ cycle' = CycleInProgress
                /\ op' = "run_optimization: get_load_forecast"
                /\ UNCHANGED <<forecast, result>>
    /\ UNCHANGED <<now, soc_percent, tariff>>
    /\ RunUnchanged

\* run_optimization, forecast empty: logged, and the cycle returns
RunOptimizationNoForecast ==
    /\ forecast' = <<>>
    /\ result' = None
    /\ cycle' = CycleRecord(0, last_discharge_allowed, TRUE, FALSE,
                            FALSE, None, 0, FALSE, FALSE, FALSE)

\* run_optimization, forecast not empty: the decision is computed and logged,
\* then self.simulation_writer.write_soc_forecast(sim_no_strategy) raises
\* AttributeError (SimulationWriter defines no such method); the outer except
\* logs it, and write_soc_comparison, write_decision, control_battery and
\* calculate_appliance_signal are not reached
RunOptimizationWriteRaises(nets) ==
    /\ forecast' = forecast_from(Instant(floor_to_slot(now)), nets)
    /\ result' = CycleDecisions[now, soc_percent, nets]
    /\ cycle' = CycleRecord(0, last_discharge_allowed, FALSE, TRUE,
                            FALSE, None, 0, FALSE, FALSE, FALSE)

\* get_load_forecast returns a series or its query raises; with both series
\* get_combined_forecast returns the frame, and the cycle runs to its end
RunGetLoadForecast ==
    /\ scheduler.pc = "get_load_forecast"
    /\ \E outcome \in QueryOutcomes, nets \in CycleNetSeqs :
           IF outcome = "raises"
           THEN RunOptimizationQueryRaises
           ELSE /\ IF get_combined_forecast(scheduler.pv_empty, outcome = "empty", Instant(floor_to_slot(now)), nets) = <<>>
                   THEN RunOptimizationNoForecast
                   ELSE RunOptimizationWriteRaises(nets)
                /\ scheduler' = SchedulerIdle
                /\ op' = "run_optimization"
    /\ UNCHANGED <<now, soc_percent, tariff>>
    /\ RunUnchanged

\* a step of run_optimization, whatever the callers of control_battery are
\* doing
RunOptimization ==
    \/ RunOptimizationStart
    \/ RunGetBatterySoc
    \/ RunGetInfluxSoc
    \/ RunGetPvForecast
    \/ RunGetLoadForecast

\* what a step of control_battery leaves alone
ControlUnchanged ==
    UNCHANGED <<optimizer, now, tariff, soc_percent, forecast, block_from,
                block_until, sim, result, ha_client, telegram, scheduler,
                side_vars>>

\* the record of a step of the call of thread t that has made `attempts`
\* POSTs
ControlRecord(t, attempts, delivered, notify_called, notified) ==
    CycleRecord(t, last_discharge_allowed, FALSE, FALSE, TRUE,
                Some(callers[t].discharge_allowed), attempts, delivered,
                notify_called, notified)

\* thread t calls control_battery(discharge_allowed): it reads
\* last_discharge_allowed and the token, and returns or calls set_number.  No
\* lock is held: the call may start while another is in progress.  The
\* threads are alike, and a call is given to the first that is free
ControlEnter(t) ==
    /\ callers[t] = None
    /\ \A u \in 1..(t - 1) : callers[u] # None
    /\ \E discharge_allowed \in BOOLEAN, file_token \in BOOLEAN :
           LET caller == control_battery_enter(
                             last_discharge_allowed,
                             HAClient_token(ha_client, file_token),
                             discharge_allowed)
           IN /\ callers' = [callers EXCEPT ![t] = caller]
              /\ cycle' = CycleRecord(t, last_discharge_allowed, FALSE, FALSE,
                                      TRUE, Some(discharge_allowed),
                                      0, FALSE, FALSE, FALSE)
              /\ op' = IF caller = None
                       THEN "control_battery"
                       ELSE "control_battery: set_number"
    /\ overlapped' = (overlapped \/ \E u \in Threads \ {t} : callers[u] # None)
    /\ UNCHANGED <<last_discharge_allowed, battery_w>>
    /\ ControlUnchanged

\* set_number of thread t reads the token again: without one it returns
\* (False, "No HA token available"), else it enters its loop
ControlSetNumberEnter(t) ==
    /\ callers[t] # None
    /\ callers[t].pc = "set_number"
    /\ callers[t].call.pc = "enter"
    /\ \E file_token \in BOOLEAN :
           callers' = [callers EXCEPT ![t].call =
                          set_number_step(
                              [@ EXCEPT !.token =
                                  HAClient_token(ha_client, file_token)])]
    /\ cycle' = ControlRecord(t, 0, FALSE, FALSE, FALSE)
    /\ op' = "control_battery: set_number entered"
    /\ UNCHANGED <<last_discharge_allowed, battery_w, overlapped>>
    /\ ControlUnchanged

\* one POST of thread t, with the token as _headers reads it: the server
\* accepts it and sets the battery, which it does not without a token, or
\* the request fails
ControlPost(t) ==
    /\ callers[t] # None
    /\ callers[t].pc = "set_number"
    /\ callers[t].call.pc = "post"
    /\ \E outcome \in ControlPostOutcomes, file_token \in BOOLEAN :
           LET call == set_number_step(
                           [callers[t].call EXCEPT
                               !.responses = Append(@, outcome)])
           IN /\ outcome = "ok" => HAClient_token(ha_client, file_token)
              /\ callers' = [callers EXCEPT ![t].call = call]
              /\ battery_w' = IF outcome = "ok"
                              THEN callers[t].value ELSE battery_w
              /\ cycle' = ControlRecord(t, call.posts, outcome = "ok",
                                        FALSE, FALSE)
    /\ op' = "control_battery: POST"
    /\ UNCHANGED <<last_discharge_allowed, overlapped>>
    /\ ControlUnchanged

\* time.sleep(retry_delay) of thread t between two POSTs
ControlSleep(t) ==
    /\ callers[t] # None
    /\ callers[t].pc = "set_number"
    /\ callers[t].call.pc = "sleep"
    /\ callers' = [callers EXCEPT ![t].call = set_number_step(@)]
    /\ cycle' = ControlRecord(t, callers[t].call.posts, FALSE, FALSE, FALSE)
    /\ op' = "control_battery: sleep"
    /\ UNCHANGED <<last_discharge_allowed, battery_w, overlapped>>
    /\ ControlUnchanged

\* set_number returns to thread t.  On success the value is remembered and
\* control_battery returns; on failure notify_error is called, which returns
\* at once when Telegram is not configured and else posts the message
ControlReturn(t) ==
    /\ callers[t] # None
    /\ callers[t].pc = "set_number"
    /\ callers[t].call.pc \in {"done", "fail"}
    /\ LET r == control_battery_return(last_discharge_allowed, callers[t])
           posting == r.notify_called /\ telegram.bot_token /\ telegram.chat_id
       IN /\ last_discharge_allowed' = r.last
          /\ cycle' = ControlRecord(t, callers[t].call.posts, r.success,
                                    r.notify_called, FALSE)
          /\ callers' = [callers EXCEPT ![t] =
                            IF posting
                            THEN [@ EXCEPT !.pc = "notify_error"]
                            ELSE None]
          /\ op' = IF posting
                   THEN "control_battery: notify_error"
                   ELSE "control_battery"
    /\ UNCHANGED <<battery_w, overlapped>>
    /\ ControlUnchanged

\* the POST of send_telegram of thread t is answered or fails, and
\* control_battery returns
ControlNotify(t) ==
    /\ callers[t] # None
    /\ callers[t].pc = "notify_error"
    /\ \E outcome \in TelegramPostOutcomes :
           cycle' = ControlRecord(t, callers[t].call.posts, FALSE, TRUE,
                                  notify_error(telegram, outcome))
    /\ callers' = [callers EXCEPT ![t] = None]
    /\ op' = "control_battery"
    /\ UNCHANGED <<last_discharge_allowed, battery_w, overlapped>>
    /\ ControlUnchanged

\* a step of a call of the method control_battery(discharge_allowed)
ControlBattery ==
    \E t \in Threads :
        \/ ControlEnter(t)
        \/ ControlSetNumberEnter(t)
        \/ ControlPost(t)
        \/ ControlSleep(t)
        \/ ControlReturn(t)
        \/ ControlNotify(t)

Next == RunOptimization \/ ControlBattery

Spec == InitManager /\ [][Next]_vars

----------------------------------------------------------------------------
(* appliance_signal: the signal for a washing machine or dishwasher *)

\* keyword defaults of calculate_appliance_signal
DefaultAppliancePowerW == 2500

DefaultApplianceEnergyWh == 1500

DefaultReservePercent == 10

\* a pandas DataFrame as far as this module reads it: its column names, the
\* length of its index and the values of its soc_percent column (in percent)
DataFrame(columns, index_len, soc_percent_column) ==
    [columns |-> columns, index_len |-> index_len,
     soc_percent |-> soc_percent_column]

\* DataFrame.empty: some axis has length 0
frame_empty(simulation) ==
    simulation.index_len = 0 \/ simulation.columns = {}

\* the smaller of two values of a column
Min(a, b) == IF a <= b THEN a ELSE b

\* Series.min() of a non-empty column
RECURSIVE series_min(_, _)
series_min(column, n) ==
    IF n = 1
    THEN column[1]
    ELSE Min(series_min(column, n - 1), column[n])

\* the value `float(simulation["soc_percent"].iloc[-1])` of the sibling
\* get_final_soc_percent, taken by mistake for the minimum
get_min_soc_percent_takes_final(simulation) ==
    IF frame_empty(simulation)
    THEN 0
    ELSE IF "soc_percent" \notin simulation.columns
    THEN 0
    ELSE simulation.soc_percent[Len(simulation.soc_percent)]

get_min_soc_percent(simulation) ==
    IF frame_empty(simulation)
    THEN 0
    ELSE IF "soc_percent" \notin simulation.columns
    THEN 0
    ELSE series_min(simulation.soc_percent, Len(simulation.soc_percent))

ApplianceSignal(signal, reason, excess_power_w, final_soc_percent) ==
    [signal |-> signal, reason |-> reason,
     excess_power_w |-> excess_power_w,
     final_soc_percent |-> final_soc_percent]

\* min_soc_percent >= orange_threshold_percent, the threshold computed in
\* floats as the code writes it: 700 / 10000 * 100 is 7.000000000000001, which
\* a minimum of 7 % does not reach
reaches_orange_threshold(min_soc_percent, reserve_percent, appliance_energy_wh, capacity_wh) ==
    LET appliance_percent ==
            float_mul(float_truediv(float_of_int(appliance_energy_wh),
                                    float_of_int(capacity_wh)),
                      float_of_int(100))
        orange_threshold_percent ==
            float_add(float_of_int(reserve_percent), appliance_percent)
    IN float_cmp(float_of_int(min_soc_percent), orange_threshold_percent) >= 0

calculate_appliance_signal(current_pv_w, current_load_w, simulation, appliance_power_w, appliance_energy_wh, capacity_wh, reserve_percent) ==
    LET excess_power == current_pv_w - current_load_w
        min_soc_percent == get_min_soc_percent(simulation)
    IN
    IF excess_power > appliance_power_w
    THEN ApplianceSignal("green", "PV excess", excess_power, 0)
    ELSE IF reaches_orange_threshold(min_soc_percent, reserve_percent,
                                     appliance_energy_wh, capacity_wh)
    THEN ApplianceSignal("orange", "Min SOC >=", excess_power, min_soc_percent)
    ELSE ApplianceSignal("red", "Min SOC <", excess_power, min_soc_percent)

----------------------------------------------------------------------------
(* Inputs of the appliance signal *)

\* longest soc_percent column drawn
MaxRows == 2

\* current PV and load power: an excess below, at and above 2500 W, and a
\* negative one
SignalPvW == {0, 500, 3500, 4000}

SignalLoadW == {500, 1000, 2000}

SignalEnergyWh == {0, 700, DefaultApplianceEnergyWh, 2000}

SignalCapacityWh == {DefaultCapacityWh, 15000}

SignalReservePercents == {0, DefaultReservePercent, 30}

\* SOC values around the thresholds 7.000000000000001, 15, 25 and 45 percent
SignalSocPercents == {0, 7, 15, 24, 25, 45}

\* pd.DataFrame(), a frame of three rows without a soc_percent column, and
\* simulations with the columns soc_percent and soc_wh
SignalSimulations ==
    {DataFrame({}, 0, <<>>), DataFrame({"other_column"}, 3, <<>>)}
    \cup {DataFrame({"soc_percent", "soc_wh"}, Len(column), column) :
             column \in UNION {[1..k -> SignalSocPercents] : k \in 0..MaxRows}}

SignalArgs ==
    {[current_pv_w |-> pv, current_load_w |-> load, simulation |-> simulation,
      appliance_power_w |-> DefaultAppliancePowerW,
      appliance_energy_wh |-> e, capacity_wh |-> c, reserve_percent |-> r] :
        pv \in SignalPvW, load \in SignalLoadW,
        simulation \in SignalSimulations,
        e \in SignalEnergyWh, c \in SignalCapacityWh,
        r \in SignalReservePercents}

\* no BatteryOptimizer takes part
NoOptimizer ==
    /\ optimizer = None
    /\ now = None
    /\ tariff = None
    /\ soc_percent = 0
    /\ forecast = <<>>
    /\ block_from = None
    /\ block_until = None
    /\ sim = <<>>
    /\ result = None

----------------------------------------------------------------------------
(* Specification of the appliance signal: calculate_appliance_signal      *)
(* applied to drawn arguments.                                            *)

InitSignal ==
    /\ NoOptimizer
    /\ NoManager
    /\ appliance \in {[args |-> a, returned |-> None] : a \in SignalArgs}
    /\ charge_point = None
    /\ ha_call = None
    /\ op = "init"

CalculateApplianceSignal ==
    /\ op = "init"
    /\ appliance' =
           [appliance EXCEPT
               !.returned =
                   calculate_appliance_signal(
                       appliance.args.current_pv_w,
                       appliance.args.current_load_w,
                       appliance.args.simulation,
                       appliance.args.appliance_power_w,
                       appliance.args.appliance_energy_wh,
                       appliance.args.capacity_wh,
                       appliance.args.reserve_percent)]
    /\ op' = "calculate_appliance_signal"
    /\ UNCHANGED <<optimizer, now, tariff, soc_percent, forecast, block_from,
                   block_until, sim, result, manager_vars, charge_point,
                   ha_call>>

NextSignal == CalculateApplianceSignal

SpecSignal == InitSignal /\ [][NextSignal]_vars

----------------------------------------------------------------------------
(* ocpp-server: ChargePointHandler, the transaction handlers *)

\* most StartTransaction messages handled by one handler
MaxTransactions == 3

\* most requests passed to self.call by one handler
MaxSent == 2

\* ChargePointHandler.__init__: connector 1, no transaction, counter 0;
\* `returned` is what the last handler or command that returned has returned,
\* `sent` the requests passed to self.call, `awaiting` the number of commands
\* suspended in `await self.call(request)`, and `started` the transaction ids
\* returned by StartTransaction so far
new_charge_point ==
    [connector_id |-> 1, transaction_id |-> None, transaction_counter |-> 0,
     returned |-> None, sent |-> <<>>, awaiting |-> 0, started |-> <<>>]

\* call_result.StartTransaction(transaction_id=..., id_tag_info=accepted)
StartTransactionResult(id) ==
    [action |-> "StartTransaction", transaction_id |-> id,
     status |-> "Accepted"]

\* call_result.StopTransaction(id_tag_info=accepted)
StopTransactionResult ==
    [action |-> "StopTransaction", status |-> "Accepted"]

\* call.SetChargingProfile(...): of the profile, which is otherwise fixed, the
\* limit and the number of phases of its one schedule period
SetChargingProfileRequest(connector_id, limit, number_phases) ==
    [action |-> "SetChargingProfile", connector_id |-> connector_id,
     limit |-> limit, number_phases |-> number_phases]

\* call.RemoteStartTransaction(id_tag=..., connector_id=...)
RemoteStartTransactionRequest(id_tag, connector_id) ==
    [action |-> "RemoteStartTransaction", id_tag |-> id_tag,
     connector_id |-> connector_id]

\* call.RemoteStopTransaction(transaction_id=...)
RemoteStopTransactionRequest(id) ==
    [action |-> "RemoteStopTransaction", transaction_id |-> id]

\* call.TriggerMessage(requested_message=MeterValues, connector_id=...)
TriggerMessageRequest(connector_id) ==
    [action |-> "TriggerMessage", requested_message |-> "MeterValues",
     connector_id |-> connector_id]

on_start_transaction(self) ==
    LET counter == self.transaction_counter + 1
    IN [self EXCEPT !.transaction_counter = counter,
                    !.transaction_id = Some(counter),
                    !.returned = StartTransactionResult(counter),
                    !.started = Append(self.started, counter)]

\* plausible slip: only the transaction named in the message is cleared
on_stop_transaction_clears_matching_only(self, transaction_id) ==
    [self EXCEPT !.transaction_id =
                     IF self.transaction_id = Some(transaction_id)
                     THEN None ELSE self.transaction_id,
                 !.returned = StopTransactionResult]

on_stop_transaction(self, transaction_id) ==
    [self EXCEPT !.transaction_id = None,
                 !.returned = StopTransactionResult]

\* `await self.call(request)`, up to the suspension: the request is handed
\* over and the command waits for the answer of the wallbox; the message loop
\* goes on handling the messages of the wallbox meanwhile
call(self, request) ==
    [self EXCEPT !.sent = Append(self.sent, request),
                 !.awaiting = self.awaiting + 1]

\* the rest of a command, from the answer of the wallbox on:
\* return response.status == "Accepted"
call_answered(self, status) ==
    [self EXCEPT !.awaiting = self.awaiting - 1,
                 !.returned = Some(status = "Accepted")]

voltage == 230

\* max(0, min(current_a, 32)): min and max return the int bound itself, and
\* current_a, a float, only when it lies above 0 and not above 32
clamp_current(current_a) ==
    IF float_cmp(float_of_int(32), current_a) < 0 THEN 32
    ELSE IF float_cmp(current_a, FloatZero) > 0 THEN current_a
    ELSE 0

\* set_charging_power up to its await, for an int power_w
set_charging_power(self, power_w, num_phases) ==
    call(self, SetChargingProfileRequest(self.connector_id, clamp_current(float_truediv(float_of_int(power_w), float_of_int(voltage * num_phases))), num_phases))

\* remote_start up to its await
remote_start(self, id_tag) ==
    call(self, RemoteStartTransactionRequest(id_tag, self.connector_id))

\* remote_stop up to its await, or to its return without a transaction
remote_stop(self) ==
    IF self.transaction_id = None
    THEN [self EXCEPT !.returned = Some(FALSE)]
    ELSE call(self, RemoteStopTransactionRequest(self.transaction_id.some))

\* trigger_meter_values up to its await
trigger_meter_values(self) ==
    call(self, TriggerMessageRequest(self.connector_id))

----------------------------------------------------------------------------
(* Specification of the charge point handler: messages of the wallbox,    *)
(* commands and the answers of the wallbox to them, in any order.  Each   *)
(* command runs in a task of its own (OCPPServer._on_mqtt_message), so    *)
(* several can be awaiting at once; a handler has no await and is one     *)
(* step.                                                                  *)

\* power_w and phases of the set_power commands
PowerValues == {-500, 7000, 22080, 30000}

PhaseValues == {1, 3}

\* response.status of the wallbox
StatusValues == {"Accepted", "Rejected"}

InitOcpp ==
    /\ NoOptimizer
    /\ NoManager
    /\ appliance = None
    /\ charge_point = new_charge_point
    /\ ha_call = None
    /\ op = "init"

OnStartTransaction ==
    /\ charge_point.transaction_counter < MaxTransactions
    /\ charge_point' = on_start_transaction(charge_point)
    /\ op' = "on_start_transaction"
    /\ UNCHANGED <<optimizer, now, tariff, soc_percent, forecast, block_from,
                   block_until, sim, result, manager_vars, appliance, ha_call>>

OnStopTransaction ==
    /\ \E transaction_id \in 0..MaxTransactions :
           charge_point' = on_stop_transaction(charge_point, transaction_id)
    /\ op' = "on_stop_transaction"
    /\ UNCHANGED <<optimizer, now, tariff, soc_percent, forecast, block_from,
                   block_until, sim, result, manager_vars, appliance, ha_call>>

SetChargingPower ==
    /\ Len(charge_point.sent) < MaxSent
    /\ \E power_w \in PowerValues, num_phases \in PhaseValues :
           charge_point' = set_charging_power(charge_point, power_w, num_phases)
    /\ op' = "set_charging_power"
    /\ UNCHANGED <<optimizer, now, tariff, soc_percent, forecast, block_from,
                   block_until, sim, result, manager_vars, appliance, ha_call>>

RemoteStart ==
    /\ Len(charge_point.sent) < MaxSent
    /\ charge_point' = remote_start(charge_point, "EnergyManager")
    /\ op' = "remote_start"
    /\ UNCHANGED <<optimizer, now, tariff, soc_percent, forecast, block_from,
                   block_until, sim, result, manager_vars, appliance, ha_call>>

RemoteStop ==
    /\ charge_point.transaction_id # None =>
           Len(charge_point.sent) < MaxSent
    /\ charge_point' = remote_stop(charge_point)
    /\ op' = "remote_stop"
    /\ UNCHANGED <<optimizer, now, tariff, soc_percent, forecast, block_from,
                   block_until, sim, result, manager_vars, appliance, ha_call>>

TriggerMeterValues ==
    /\ Len(charge_point.sent) < MaxSent
    /\ charge_point' = trigger_meter_values(charge_point)
    /\ op' = "trigger_meter_values"
    /\ UNCHANGED <<optimizer, now, tariff, soc_percent, forecast, block_from,
                   block_until, sim, result, manager_vars, appliance, ha_call>>

\* the wallbox answers an awaiting command, which returns
CallAnswered ==
    /\ charge_point.awaiting > 0
    /\ \E status \in StatusValues :
           charge_point' = call_answered(charge_point, status)
    /\ op' = "call_answered"
    /\ UNCHANGED <<optimizer, now, tariff, soc_percent, forecast, block_from,
                   block_until, sim, result, manager_vars, appliance, ha_call>>

NextOcpp ==
    \/ OnStartTransaction
    \/ OnStopTransaction
    \/ SetChargingPower
    \/ RemoteStart
    \/ RemoteStop
    \/ TriggerMeterValues
    \/ CallAnswered

SpecOcpp == InitOcpp /\ [][NextOcpp]_vars

----------------------------------------------------------------------------
(* Specification of HAClient.set_number: the retry loop, statement by     *)
(* statement, against every plan of server responses.                     *)

\* largest max_retries drawn
MaxRetries == 3

\* calls with and without a token, for every max_retries from 1 up and every
\* plan of responses to the POSTs
SetNumberCalls ==
    UNION {{new_set_number_call(token, max_retries, responses) :
               token \in BOOLEAN,
               responses \in [1..max_retries -> PostOutcomes]} :
           max_retries \in 1..MaxRetries}

InitSetNumber ==
    /\ NoOptimizer
    /\ NoManager
    /\ appliance = None
    /\ charge_point = None
    /\ ha_call \in SetNumberCalls
    /\ op = "init"

\* `if not self.token: return ...`, and the entry of the loop
SetNumberEnter ==
    /\ ha_call.pc = "enter"
    /\ ha_call' = set_number_step(ha_call)
    /\ op' = "set_number: enter"
    /\ UNCHANGED <<optimizer, now, tariff, soc_percent, forecast, block_from,
                   block_until, sim, result, manager_vars, appliance,
                   charge_point>>

\* one POST: success returns, an exception sets last_error
SetNumberPost ==
    /\ ha_call.pc = "post"
    /\ ha_call' = set_number_step(ha_call)
    /\ op' = "set_number: post"
    /\ UNCHANGED <<optimizer, now, tariff, soc_percent, forecast, block_from,
                   block_until, sim, result, manager_vars, appliance,
                   charge_point>>

\* time.sleep(retry_delay) before the next attempt
SetNumberSleep ==
    /\ ha_call.pc = "sleep"
    /\ ha_call' = set_number_step(ha_call)
    /\ op' = "set_number: sleep"
    /\ UNCHANGED <<optimizer, now, tariff, soc_percent, forecast, block_from,
                   block_until, sim, result, manager_vars, appliance,
                   charge_point>>

\* `return False, last_error` after the loop
SetNumberFail ==
    /\ ha_call.pc = "fail"
    /\ ha_call' = set_number_step(ha_call)
    /\ op' = "set_number: return"
    /\ UNCHANGED <<optimizer, now, tariff, soc_percent, forecast, block_from,
                   block_until, sim, result, manager_vars, appliance,
                   charge_point>>

NextSetNumber ==
    SetNumberEnter \/ SetNumberPost \/ SetNumberSleep \/ SetNumberFail

\* the call runs in one thread that is not stopped: each statement that can
\* be executed eventually is
SpecSetNumber ==
    InitSetNumber /\ [][NextSetNumber]_vars /\ WF_vars(NextSetNumber)

----------------------------------------------------------------------------
(* Vocabulary of the claims about the tariff calendar, stated from the    *)
(* configuration alone.                                                    *)

\* day d is all-day-cheap: a flagged weekend day, or a holiday
AllDayCheap(cfg, d) ==
    (cfg.weekend_all_day_cheap /\ (d % 7) \in {5, 6}) \/ d \in cfg.holidays

\* clock time of a datetime, in minutes after midnight
TimeOfDay(dt) == dt.wall % MinutesPerDay

\* clock time of `now` floored to its slot
SlotFlooredTimeOfDay(dt) == (TimeOfDay(dt) \div SlotMinutes) * SlotMinutes

ConfiguredCheapStart(cfg) == cfg.cheap_start_hour * 60 + cfg.cheap_start_minute

ConfiguredCheapEnd(cfg) == cfg.cheap_end_hour * 60 + cfg.cheap_end_minute

\* the first day after day d that is not all-day-cheap
FirstNonCheapDayAfter(cfg, d) ==
    CHOOSE x \in (d + 1)..(d + 14) :
        /\ ~AllDayCheap(cfg, x)
        /\ \A y \in (d + 1)..(x - 1) : AllDayCheap(cfg, y)

\* the datetime at clock time tod (minutes) on day d, in the zone of `now`
OnDay(d, tod) == DateTime(d * MinutesPerDay + tod, now.off)

TariffReturned == op = "get_tariff_periods"

\* C5: on a day that is not all-day-cheap, is_cheap_now is false exactly when
\* the slot-floored clock time t of `now` has cheap_end <= t < cheap_start,
\* for every configured start and end time, also with non-zero minutes.
C5_ExpensiveExactlyInsideWindow ==
    (TariffReturned /\ ~AllDayCheap(optimizer, date(now))) =>
        ((tariff.is_cheap_now = FALSE) <=>
            /\ ConfiguredCheapEnd(optimizer) <= SlotFlooredTimeOfDay(now)
            /\ SlotFlooredTimeOfDay(now) < ConfiguredCheapStart(optimizer))

\* C6: on a flagged weekend day, and on a holiday whatever the weekend flag,
\* is_cheap_now is true at every clock time, cheap_start is the slot-floored
\* `now`, and cheap_end and target fall on the first following day that is
\* not all-day-cheap (at the morning cheap-end and at the target hour), the
\* same for a holiday as for a flagged weekend day.
C6_AllDayCheapDayIsCheap ==
    (TariffReturned /\ AllDayCheap(optimizer, date(now))) =>
        LET next_day == FirstNonCheapDayAfter(optimizer, date(now))
        IN /\ tariff.is_cheap_now = TRUE
           /\ tariff.cheap_start =
                  OnDay(date(now), SlotFlooredTimeOfDay(now))
           /\ tariff.cheap_end = OnDay(next_day, ConfiguredCheapEnd(optimizer))
           /\ tariff.target = OnDay(next_day, TargetHour * 60)

\* C6 witness: midday of a weekday holiday with the weekend flag off, followed
\* by a second holiday, classified cheap with cheap_end two days later.
C6_Witness ==
    /\ TariffReturned
    /\ ~optimizer.weekend_all_day_cheap
    /\ date(now) \in optimizer.holidays
    /\ (date(now) + 1) \in optimizer.holidays
    /\ date(now) % 7 < 5
    /\ hour(now) = 12
    /\ tariff.is_cheap_now
    /\ date(tariff.cheap_end) = date(now) + 2

\* C7: in every branch cheap_end is the morning cheap-end time on the first
\* day after the cheap period begins that is not all-day-cheap; a run of
\* all-day-cheap days is skipped as one block, also from the daytime
\* expensive window of the weekday before the run.
C7_CheapEndSkipsCheapDays ==
    TariffReturned =>
        tariff.cheap_end =
            OnDay(FirstNonCheapDayAfter(optimizer, date(tariff.cheap_start)),
                  ConfiguredCheapEnd(optimizer))

\* C8: on the weekday branches the target is the configured evening
\* cheap-start time of a day that is not all-day-cheap, and the interval from
\* cheap_end (from today's cheap-end when `now` is before it) to target is
\* exactly one expensive window of that day.
C8_TargetEndsNextExpensiveWindow ==
    (TariffReturned /\ ~AllDayCheap(optimizer, date(now))) =>
        LET window_start ==
                IF SlotFlooredTimeOfDay(now) < ConfiguredCheapEnd(optimizer)
                THEN OnDay(date(now), ConfiguredCheapEnd(optimizer))
                ELSE tariff.cheap_end
            d == date(tariff.target)
        IN /\ ~AllDayCheap(optimizer, d)
           /\ tariff.target = OnDay(d, ConfiguredCheapStart(optimizer))
           /\ window_start = OnDay(d, ConfiguredCheapEnd(optimizer))

\* C9: two timezone-aware `now` values denoting the same instant, one in UTC
\* and one in the calendar's local zone, yield the same is_cheap_now and the
\* same cheap_end and target instants.
C9_SameInstantSameTariff ==
    TariffReturned =>
        \A o \in NowOffsets :
            LET other == get_tariff_periods(optimizer, astimezone(now, o))
            IN /\ other.is_cheap_now = tariff.is_cheap_now
               /\ Instant(other.cheap_end) = Instant(tariff.cheap_end)
               /\ Instant(other.target) = Instant(tariff.target)


\* C27: for every `now` and every valid configuration, get_tariff_periods
\* returns an ordered period: when is_cheap_now is true, cheap_start <=
\* slot-floored now < cheap_end < target; when it is false, slot-floored now <
\* cheap_start < cheap_end < target.
C27_PeriodIsOrdered ==
    TariffReturned =>
        LET n == Instant(floor_to_slot(now))
            cs == Instant(tariff.cheap_start)
            ce == Instant(tariff.cheap_end)
            tg == Instant(tariff.target)
        IN IF tariff.is_cheap_now
           THEN cs <= n /\ n < ce /\ ce < tg
           ELSE n < cs /\ cs < ce /\ ce < tg

----------------------------------------------------------------------------
(* Claims about the simulator *)

SimReturned == op = "simulate_soc"

\* a <= b and a < b of two floats
FloatLe(a, b) == float_cmp(a, b) <= 0

FloatLt(a, b) == float_cmp(a, b) < 0

\* C10: every point of the clamped trajectory has 0 <= soc_percent <= 100
\* and 0 <= soc_wh <= capacity_wh, for every starting SOC, forecast and
\* block window.
C10_ClampedSocWithinBounds ==
    SimReturned =>
        \A i \in 1..Len(sim) :
            /\ FloatLe(FloatZero, sim[i].soc_wh)
            /\ FloatLe(sim[i].soc_wh, optimizer.capacity_wh)
            /\ FloatLe(FloatZero, soc_percent_of(optimizer, sim[i].soc_wh))
            /\ FloatLe(soc_percent_of(optimizer, sim[i].soc_wh), float_of_int(100))

\* C10 witness: a deficit that goes on after the battery is empty: a point
\* pinned at 0 while the unclamped tally is below zero, followed by another
\* deficit slot after which the trajectory still stands at 0.
C10_Witness ==
    /\ SimReturned
    /\ \E i \in 1..(Len(sim) - 1) :
           /\ sim[i].soc_wh = FloatZero
           /\ FloatLt(sim[i].soc_wh_unclamped, FloatZero)
           /\ forecast[i].net_energy_wh < 0
           /\ ~in_block_window(forecast[i].time, block_from, block_until)
           /\ sim[i + 1].soc_wh = FloatZero


----------------------------------------------------------------------------
(* Vocabulary of the claims about the simulator, stated from the arguments *)
(* of the call and the configured battery.                                 *)

\* a call of simulate_soc was made: it returned or it raised
SimCalled == op \in {"simulate_soc", "simulate_soc raised"}

\* the configured capacity and per-slot limits, in Wh
CapacityWh == optimizer.capacity_wh

MaxChargeWh == optimizer.max_charge_wh_per_15min

MaxDischargeWh == optimizer.max_discharge_wh_per_15min

\* the starting SOC in Wh: soc_percent / 100 * capacity_wh
StartingSocWh ==
    float_mul(float_truediv(float_of_int(soc_percent), float_of_int(100)),
              CapacityWh)

\* slot i lies in [block_from, block_until), an absent block_from meaning
\* from the first slot
InBlockWindow(i) ==
    /\ block_until # None
    /\ (block_from = None \/ Instant(forecast[i].time) >= Instant(block_from))
    /\ Instant(forecast[i].time) < Instant(block_until)

\* slot i is the first slot at or after block_until
FirstSlotAfterBlock(i) ==
    /\ block_until # None
    /\ Instant(forecast[i].time) >= Instant(block_until)
    /\ \A j \in 1..(i - 1) : Instant(forecast[j].time) < Instant(block_until)

\* energy a surplus slot stores: the surplus after charge losses, limited by
\* the per-slot charge cap and by the room left
StandardCharge(soc_wh, net_wh) ==
    float_min(float_min(float_mul(float_of_int(net_wh), optimizer.charge_efficiency),
                        MaxChargeWh),
              float_sub(CapacityWh, soc_wh))

\* energy a deficit slot draws: the deficit with discharge losses, limited by
\* the per-slot discharge cap and by what the battery holds
StandardDischarge(soc_wh, net_wh) ==
    float_min(float_min(float_truediv(float_of_int(-net_wh),
                                      optimizer.discharge_efficiency),
                        MaxDischargeWh),
              soc_wh)

\* the clamped SOC of point i after slot i is applied
SocAfterSlot(i) ==
    LET net_wh == forecast[i].net_energy_wh
    IN IF net_wh > 0
       THEN float_add(sim[i].soc_wh, StandardCharge(sim[i].soc_wh, net_wh))
       ELSE IF InBlockWindow(i)
       THEN sim[i].soc_wh
       ELSE float_sub(sim[i].soc_wh, StandardDischarge(sim[i].soc_wh, net_wh))

\* the starting soc_wh plus the net_energy_wh of the first n slots, added
\* slot by slot in forecast order
RECURSIVE SocPlusNet(_)
SocPlusNet(n) ==
    IF n = 0 THEN StartingSocWh
    ELSE float_add(SocPlusNet(n - 1), float_of_int(forecast[n].net_energy_wh))

\* both efficiencies are 1
Lossless ==
    /\ optimizer.charge_efficiency = float_of_int(1)
    /\ optimizer.discharge_efficiency = float_of_int(1)

\* no slot exceeds a per-slot cap, and the running sum never leaves
\* [0, capacity_wh]
NoLimitHit ==
    \A i \in 1..Len(forecast) :
        /\ FloatLe(float_of_int(forecast[i].net_energy_wh), MaxChargeWh)
        /\ FloatLe(float_of_int(-forecast[i].net_energy_wh), MaxDischargeWh)
        /\ FloatLe(FloatZero, SocPlusNet(i))
        /\ FloatLe(SocPlusNet(i), CapacityWh)

\* C11: for every slot inside [block_from, block_until) with net_energy_wh <= 0
\* discharge_wh is 0 and the clamped soc_wh is unchanged by the slot; the first
\* slot at or after block_until discharges by the standard formula again; a
\* surplus slot inside the window still charges the battery.
C11_BlockSuppressesDischarge ==
    SimReturned =>
        \A i \in 1..Len(sim) :
            LET net_wh == forecast[i].net_energy_wh
                has_next == i < Len(sim)
            IN /\ (InBlockWindow(i) /\ net_wh <= 0) =>
                      /\ sim[i].discharge_wh = FloatZero
                      /\ has_next => sim[i + 1].soc_wh = sim[i].soc_wh
               /\ (FirstSlotAfterBlock(i) /\ net_wh <= 0 /\ has_next) =>
                      sim[i + 1].soc_wh =
                          float_sub(sim[i].soc_wh,
                                    StandardDischarge(sim[i].soc_wh, net_wh))
               /\ (InBlockWindow(i) /\ net_wh > 0 /\ has_next) =>
                      sim[i + 1].soc_wh =
                          float_add(sim[i].soc_wh,
                                    StandardCharge(sim[i].soc_wh, net_wh))

\* C11 witness: a charged battery held through a blocked deficit slot, then
\* discharged by the deficit of the first slot at block_until.
C11_Witness ==
    /\ SimReturned
    /\ \E i \in 1..(Len(sim) - 2) :
           /\ InBlockWindow(i)
           /\ forecast[i].net_energy_wh < 0
           /\ FloatLt(FloatZero, sim[i].soc_wh)
           /\ sim[i].discharge_wh = FloatZero
           /\ sim[i + 1].soc_wh = sim[i].soc_wh
           /\ FirstSlotAfterBlock(i + 1)
           /\ forecast[i + 1].net_energy_wh < 0
           /\ FloatLt(sim[i + 2].soc_wh, sim[i + 1].soc_wh)

\* C12: a returned trajectory has one point per forecast slot, in the same
\* order and with the same timestamps; point 0 holds the starting SOC, and
\* point i+1 holds point i after slot i is applied.
C12_PointHoldsSocBeforeSlot ==
    SimReturned =>
        /\ Len(sim) = Len(forecast)
        /\ \A i \in 1..Len(sim) : sim[i].time = forecast[i].time
        /\ Len(sim) >= 1 => sim[1].soc_wh = StartingSocWh
        /\ \A i \in 1..(Len(sim) - 1) : sim[i + 1].soc_wh = SocAfterSlot(i)

\* C12 witness: a half-charged battery, a surplus in the first slot and a
\* deficit in the second; point 0 holds the starting SOC unchanged by the
\* surplus, point 1 is above it and point 2 below point 1.
C12_Witness ==
    /\ SimReturned
    /\ Len(sim) >= 3
    /\ soc_percent = 50
    /\ forecast[1].net_energy_wh > 0
    /\ forecast[2].net_energy_wh < 0
    /\ ~InBlockWindow(2)
    /\ sim[1].soc_wh = StartingSocWh
    /\ FloatLt(sim[1].soc_wh, sim[2].soc_wh)
    /\ FloatLt(sim[3].soc_wh, sim[2].soc_wh)

\* C13: simulate_soc called with an empty forecast returns an empty trajectory
\* and raises no exception, for every starting SOC and every block window.
C13_EmptyForecastEmptyTrajectory ==
    (SimCalled /\ forecast = <<>>) =>
        /\ op = "simulate_soc"
        /\ sim = <<>>

\* C14, as stated: with both efficiencies 1, no block window and no cap or
\* clamp hit, the soc_wh of the last point equals the starting soc_wh plus the
\* sum of net_energy_wh over all forecast slots.
C14_ConservationOverAllSlots ==
    (SimReturned /\ Lossless /\ block_until = None /\ NoLimitHit) =>
        sim[Len(sim)].soc_wh = SocPlusNet(Len(forecast))

\* C14, amended: with both efficiencies 1, no block window and no cap or clamp
\* hit, the soc_wh of the last point equals the starting soc_wh plus the
\* net_energy_wh of all forecast slots but the last one, added slot by slot in
\* forecast order: a point is recorded before its own slot is applied.
C14_ConservationUpToLastPoint ==
    (SimReturned /\ Lossless /\ block_until = None /\ NoLimitHit) =>
        sim[Len(sim)].soc_wh = SocPlusNet(Len(forecast) - 1)

\* C14 witness: a lossless run without limits over at least three slots, with
\* a surplus and a deficit before the last slot and a last slot that is not
\* balanced.
C14_Witness ==
    /\ SimReturned
    /\ Lossless
    /\ block_until = None
    /\ NoLimitHit
    /\ Len(sim) >= 3
    /\ \E i, j \in 1..(Len(sim) - 1) :
           /\ forecast[i].net_energy_wh > 0
           /\ forecast[j].net_energy_wh < 0
    /\ forecast[Len(forecast)].net_energy_wh # 0
    /\ sim[Len(sim)].soc_wh = SocPlusNet(Len(forecast) - 1)

\* C15: without a block window the unclamped tally starts at the starting
\* SOC and moves by the same per-slot arithmetic as the clamped one, without
\* the floor at 0 and the ceiling at capacity_wh: a surplus slot raises it by
\* the energy offered (with or without the per-slot charge cap), a deficit
\* slot lowers it by the energy needed (with or without the per-slot
\* discharge cap), so that it exceeds capacity_wh by an unstored surplus.
C15_UnclampedHasNoFloorNoCeiling ==
    (SimReturned /\ block_until = None) =>
        /\ Len(sim) >= 1 => sim[1].soc_wh_unclamped = StartingSocWh
        /\ \A i \in 1..(Len(sim) - 1) :
               LET net_wh == float_of_int(forecast[i].net_energy_wh)
                   before == sim[i].soc_wh_unclamped
                   offered == charge_offered(optimizer, net_wh)
                   needed == discharge_needed(optimizer, net_wh)
               IN IF forecast[i].net_energy_wh > 0
                  THEN sim[i + 1].soc_wh_unclamped \in
                           {float_add(before, offered),
                            float_add(before, float_min(offered, MaxChargeWh))}
                  ELSE sim[i + 1].soc_wh_unclamped \in
                           {float_sub(before, needed),
                            float_sub(before, float_min(needed, MaxDischargeWh))}

\* C16: in every point discharge_wh is the energy actually discharged in the
\* slot: the clamped soc_wh after the slot is the soc_wh before it less
\* discharge_wh, and discharge_wh is 0 in charging and in blocked slots, also
\* when the battery is empty or the per-slot discharge cap limits the flow.
C16_DischargeWhIsActualDischarge ==
    SimReturned =>
        \A i \in 1..(Len(sim) - 1) :
            IF forecast[i].net_energy_wh > 0 \/ InBlockWindow(i)
            THEN sim[i].discharge_wh = FloatZero
            ELSE sim[i + 1].soc_wh = float_sub(sim[i].soc_wh, sim[i].discharge_wh)


\* the trajectory simulate_soc returns for the same SOC and forecast when no
\* block window is given
Unblocked == simulate_soc(optimizer, soc_percent, forecast, None, None).rows

\* C26: for every starting SOC in 0..100, every forecast and every block
\* window, the clamped soc_wh of simulate_soc with blocking is >= the clamped
\* soc_wh of simulate_soc without blocking at every slot.
C26_BlockingNeverLowersSoc ==
    (SimReturned /\ soc_percent \in 0..100) =>
        /\ Len(sim) = Len(Unblocked)
        /\ \A i \in 1..Len(sim) :
               /\ sim[i].time = Unblocked[i].time
               /\ FloatLe(Unblocked[i].soc_wh, sim[i].soc_wh)

\* a block window that holds back a discharge: at a later slot the blocked
\* trajectory is strictly above the unblocked one
C26_Witness ==
    /\ SimReturned
    /\ soc_percent \in 0..100
    /\ block_from # None
    /\ \E i \in 2..Len(sim) :
           /\ InBlockWindow(i - 1)
           /\ forecast[i - 1].net_energy_wh < 0
           /\ FloatLt(Unblocked[i].soc_wh, sim[i].soc_wh)

----------------------------------------------------------------------------
(* Claims about the decision *)

DecisionReturned == op = "calculate_decision"

\* the minimum-SOC floor of the specified policy, in percent
MinSocFloorPercent == 10

\* slot time t, read in the zone of `now`, lies in an expensive period of a
\* day that is not all-day-cheap
InProtectedWindow(cfg, t) ==
    LET local == astimezone(t, now.off)
    IN /\ ~AllDayCheap(cfg, date(local))
       /\ ConfiguredCheapEnd(cfg) <= TimeOfDay(local)
       /\ TimeOfDay(local) < ConfiguredCheapStart(cfg)

\* the minimum soc_percent of the unconstrained trajectory over the protected
\* slots is >= the floor (the minimum counts as 100 when there is no such slot)
MinProtectedSocAtLeastFloor ==
    \A i \in 1..Len(result.sim_no_strategy) :
        InProtectedWindow(optimizer, result.sim_no_strategy[i].time) =>
            FloatLe(float_of_int(MinSocFloorPercent),
                    soc_percent_of(optimizer, result.sim_no_strategy[i].soc_wh))

\* C1: for a non-empty forecast and a `now` that get_tariff_periods reports
\* cheap, discharge is allowed if and only if the minimum projected SOC over
\* the protected slots is >= the minimum-SOC floor.
C1_CheapAllowsIffMinSocAboveFloor ==
    (/\ DecisionReturned
     /\ forecast # <<>>
     /\ get_tariff_periods(optimizer, now).is_cheap_now) =>
        (result.decision.discharge_allowed <=> MinProtectedSocAtLeastFloor)

\* C2: for a non-empty forecast, any starting SOC and a `now` that
\* get_tariff_periods reports expensive, discharge is allowed, however deep the
\* forecast deficit.
C2_ExpensiveAlwaysAllows ==
    (/\ DecisionReturned
     /\ forecast # <<>>
     /\ ~get_tariff_periods(optimizer, now).is_cheap_now) =>
        (~result.raised /\ result.decision.discharge_allowed = TRUE)

\* C2 witness: an expensive `now`, an empty battery and a forecast deficit that
\* leaves a shortfall at the end of the horizon, and discharge is allowed.
C2_Witness ==
    /\ DecisionReturned
    /\ forecast # <<>>
    /\ ~get_tariff_periods(optimizer, now).is_cheap_now
    /\ soc_percent = 0
    /\ \A i \in 1..Len(forecast) : forecast[i].net_energy_wh < 0
    /\ FloatLt(FloatZero, result.decision.deficit_wh)
    /\ result.decision.discharge_allowed

\* C3: with an empty forecast calculate_decision returns (raises nothing) with
\* discharge_allowed = true and a reason naming the missing forecast, for every
\* starting SOC and every `now`, cheap or expensive.
C3_EmptyForecastFailsOpen ==
    (DecisionReturned /\ forecast = <<>>) =>
        /\ ~result.raised
        /\ result.decision.discharge_allowed = TRUE
        /\ result.decision.reason = "No forecast data"

\* C3 witness: an empty forecast during a cheap period, allowed.
C3_Witness ==
    /\ DecisionReturned
    /\ forecast = <<>>
    /\ get_tariff_periods(optimizer, now).is_cheap_now
    /\ result.decision.discharge_allowed
    /\ result.decision.reason = "No forecast data"

\* the trajectory with discharge blocked from b_from until the end of the cheap
\* period that get_tariff_periods reports for `now`
BlockedUntilCheapEnd(b_from) ==
    simulate_soc(optimizer, soc_percent, forecast, b_from,
                 get_tariff_periods(optimizer, now).cheap_end).rows

\* C17: the 'with strategy' trajectory returned by calculate_decision equals
\* the unconstrained trajectory whenever discharge_allowed is true; whenever
\* it is false it is the simulation with discharge blocked on exactly the
\* slots in [now, cheap_end) (counted from `now` or from the slot of `now`).
C17_StrategyTrajectoryFollowsDecision ==
    DecisionReturned =>
        IF result.decision.discharge_allowed
        THEN result.sim_with_strategy = result.sim_no_strategy
        ELSE \/ result.sim_with_strategy = BlockedUntilCheapEnd(now)
             \/ result.sim_with_strategy =
                    BlockedUntilCheapEnd(floor_to_slot(now))

\* C18: for a fixed forecast and a `now` in a cheap period, if
\* calculate_decision allows at the starting SOC it allows at every higher
\* starting SOC, and it allows at every starting SOC whose projected
\* trajectory shows no shortfall.
C18_RaisingSocNeverBlocks ==
    (/\ DecisionReturned
     /\ forecast # <<>>
     /\ get_tariff_periods(optimizer, now).is_cheap_now) =>
        /\ result.decision.discharge_allowed =>
               \A s \in DecisionSocs :
                   s >= soc_percent =>
                       calculate_decision(optimizer, s, forecast, now)
                           .decision.discharge_allowed
        /\ deficit_at_target(result.sim_no_strategy) = FloatZero =>
               result.decision.discharge_allowed

\* the rows of a forecast are consecutive slots: each timestamp is one slot
\* width after the one before
StrictlyAscendingAtSlotWidth(fc) ==
    \A i \in 1..(Len(fc) - 1) :
        Instant(fc[i + 1].time) = Instant(fc[i].time) + SlotMinutes

\* C21: when the forecast given to a decision is not strictly ascending in
\* time at the fixed slot width (a gap, a duplicate or an out-of-order
\* timestamp), the call fails with an error and produces no allow/block
\* decision and no trajectory.
C21_IrregularForecastFailsLoudly ==
    (DecisionReturned /\ ~StrictlyAscendingAtSlotWidth(forecast)) =>
        result.raised

\* the unclamped SOC of the unconstrained trajectory at instant t: the
\* tally of the point recorded at t
UnclampedAt(t) ==
    LET i == CHOOSE j \in 1..Len(result.sim_no_strategy) :
                 Instant(result.sim_no_strategy[j].time) = Instant(t)
    IN result.sim_no_strategy[i].soc_wh_unclamped

\* the rows of a forecast up to and including the one at instant t
UpTo(fc, t) == SelectSeq(fc, LAMBDA r : Instant(r.time) <= Instant(t))

\* C22: deficit_wh is the shortfall at the tariff target: max(0, -U) where U
\* is the unclamped SOC at the target time returned by get_tariff_periods, so
\* the forecast slots at or after the target change neither deficit_wh nor
\* the decision.
C22_DeficitIsShortfallAtTarget ==
    DecisionReturned =>
        LET target == get_tariff_periods(optimizer, now).target
            cut == calculate_decision(optimizer, soc_percent,
                                      UpTo(forecast, target), now)
        IN /\ result.decision.deficit_wh =
                  float_max(FloatZero, float_neg(UnclampedAt(target)))
           /\ result.decision.deficit_wh = cut.decision.deficit_wh
           /\ result.decision.discharge_allowed = cut.decision.discharge_allowed


\* slot i of the unconstrained trajectory lies in [cheap_start, cheap_end)
InCheapPeriod(i) ==
    LET tp == get_tariff_periods(optimizer, now)
        t == Instant(result.sim_no_strategy[i].time)
    IN Instant(tp.cheap_start) <= t /\ t < Instant(tp.cheap_end)

\* the discharge of the unconstrained trajectory summed, slot by slot, over
\* the slots of the cheap period among slots 1..n
RECURSIVE DischargeSinceCheapStart(_)
DischargeSinceCheapStart(n) ==
    IF n = 0
    THEN FloatZero
    ELSE float_add(DischargeSinceCheapStart(n - 1),
                   IF InCheapPeriod(n)
                   THEN result.sim_no_strategy[n].discharge_wh
                   ELSE FloatZero)

\* slot i is a cheap slot at which the running sum has reached the deficit
ReachesDeficit(i) ==
    /\ InCheapPeriod(i)
    /\ FloatLe(result.decision.deficit_wh, DischargeSinceCheapStart(i))

\* C23: when deficit_wh > 0, switch_on_time is the time of the first slot in
\* [cheap_start, cheap_end) at which the running sum of the unconstrained
\* trajectory's discharge_wh since cheap_start reaches deficit_wh, and is
\* cheap_end when the sum never reaches it; so cheap_start <= switch_on_time
\* <= cheap_end, and in a cheap period discharge is allowed exactly when
\* now >= switch_on_time.
C23_SwitchOnTimeIsFirstSlotCoveringDeficit ==
    (/\ DecisionReturned
     /\ forecast # <<>>
     /\ FloatLt(FloatZero, result.decision.deficit_wh)) =>
        LET tp == get_tariff_periods(optimizer, now)
            traj == result.sim_no_strategy
            slots == 1..Len(traj)
            s == result.decision.switch_on_time
        IN /\ s # None
           /\ (\E i \in slots : ReachesDeficit(i)) =>
                  \E i \in slots :
                      /\ ReachesDeficit(i)
                      /\ \A j \in 1..(i - 1) : ~ReachesDeficit(j)
                      /\ s = traj[i].time
           /\ (\A i \in slots : ~ReachesDeficit(i)) => s = tp.cheap_end
           /\ Instant(tp.cheap_start) <= Instant(s)
           /\ Instant(s) <= Instant(tp.cheap_end)
           /\ tp.is_cheap_now =>
                  (result.decision.discharge_allowed <=>
                       Instant(now) >= Instant(s))

\* a cheap `now` with a deficit that the second or a later cheap slot covers:
\* the switch lies strictly inside the cheap period and discharge is blocked
C23_Witness ==
    /\ DecisionReturned
    /\ forecast # <<>>
    /\ FloatLt(FloatZero, result.decision.deficit_wh)
    /\ get_tariff_periods(optimizer, now).is_cheap_now
    /\ \E i \in 2..Len(result.sim_no_strategy) :
           /\ ReachesDeficit(i)
           /\ ~ReachesDeficit(i - 1)
           /\ InCheapPeriod(i - 1)
           /\ result.decision.switch_on_time = result.sim_no_strategy[i].time
    /\ ~result.decision.discharge_allowed

\* slot i of the unconstrained trajectory lies in [cheap_start,
\* switch_on_time): the slots the returned with-strategy simulation blocks
InBlockedPeriod(i) ==
    LET tp == get_tariff_periods(optimizer, now)
        t == Instant(result.sim_no_strategy[i].time)
    IN /\ Instant(tp.cheap_start) <= t
       /\ t < Instant(result.decision.switch_on_time)

\* the discharge of the unconstrained trajectory summed, slot by slot, over
\* the blocked slots among slots 1..n
RECURSIVE DischargeWithheld(_)
DischargeWithheld(n) ==
    IF n = 0
    THEN FloatZero
    ELSE float_add(DischargeWithheld(n - 1),
                   IF InBlockedPeriod(n)
                   THEN result.sim_no_strategy[n].discharge_wh
                   ELSE FloatZero)

\* C25: whenever calculate_decision returns saved_wh >= deficit_wh > 0 with
\* switch_on_time earlier than cheap_end, the discharge withheld by the
\* returned with-strategy simulation (the unconstrained discharge_wh summed
\* over the blocked slots in [cheap_start, switch_on_time)) is at least
\* deficit_wh, and is the reported saved_wh.
C25_SavedIsWhatBlockingWithholds ==
    (/\ DecisionReturned
     /\ forecast # <<>>
     /\ FloatLt(FloatZero, result.decision.deficit_wh)
     /\ FloatLe(result.decision.deficit_wh, result.decision.saved_wh)
     /\ Instant(result.decision.switch_on_time)
            < Instant(get_tariff_periods(optimizer, now).cheap_end)) =>
        /\ FloatLe(result.decision.deficit_wh,
                   DischargeWithheld(Len(result.sim_no_strategy)))
        /\ DischargeWithheld(Len(result.sim_no_strategy))
               = result.decision.saved_wh

----------------------------------------------------------------------------
(* Claims about concurrent callers *)

\* C19: calculate_decision is pure and stateless: no step of a call changes
\* the BatteryOptimizer's configuration or a forecast, every call returns
\* what calculate_decision returns for its arguments when run alone, however
\* the steps of the calls interleave, and calls with identical arguments
\* return identical decisions and trajectories.
C19_CallsDoNotInterfere ==
    [][/\ optimizer' = optimizer
       /\ forecast' = forecast
       /\ \A t \in Threads :
              op'[t] = "returned" =>
                  /\ result'[t] = calculate_decision(optimizer, soc_percent[t],
                                                      forecast[t], now[t])
                  /\ \A u \in Threads :
                         (/\ op'[u] = "returned"
                          /\ now[u] = now[t]
                          /\ soc_percent[u] = soc_percent[t]
                          /\ forecast[u] = forecast[t]) =>
                             result'[u] = result'[t]]_vars

\* C19 witness: one call has returned a block while another call, with a
\* different `now` and a different forecast, is under way between its
\* simulation and its decision, holding a tariff of its own.
C19_Witness ==
    /\ op[1] = "returned"
    /\ op[2] = "simulate_soc"
    /\ now[1] # now[2]
    /\ forecast[1] # forecast[2]
    /\ forecast[1] # <<>>
    /\ tariff[1] # tariff[2]
    /\ ~result[1].decision.discharge_allowed
    /\ result[1] = calculate_decision(optimizer, soc_percent[1], forecast[1],
                                      now[1])

----------------------------------------------------------------------------
(* Claims about the optimization cycle *)

CycleRan == op = "run_optimization"

\* no call of control_battery is in progress
CallersIdle == \A t \in Threads : callers[t] = None

\* C4: once a block command was delivered, a cycle that finds the forecast
\* empty resolves to an explicit allow that reaches the battery (Home
\* Assistant being reachable), so discharge is re-enabled while the forecast
\* is missing.
C4_EmptyForecastReenablesDischarge ==
    (/\ CycleRan
     /\ cycle.forecast_empty
     /\ cycle.last_before = Some(FALSE)
     /\ HAClient_token(ha_client, FALSE)
     /\ CallersIdle
     /\ ~overlapped) =>
        /\ battery_w = AllowedDischargeW
        /\ last_discharge_allowed = Some(TRUE)

\* a call of control_battery returned in the last step
ControlCalled == op = "control_battery" /\ cycle.control_called

\* a call of control_battery went on to set_number in the last step
ControlStarted == op = "control_battery: set_number"

\* the discharge_allowed passed to that call
Decided == cycle.discharge_allowed.some

\* control_battery sent a discharge-power command (at least one POST)
CommandSent == cycle.attempts > 0

\* discharge_allowed differs from the value of the last delivered command
\* (none before the first delivery)
DecisionChanged == Some(Decided) # cycle.last_before

\* every one of the attempts of control_battery failed
AllRetriesFailed == CommandSent /\ ~cycle.delivered

\* the calls of control_battery so far came one after the other, as the
\* cycles of the scheduler do
Sequential == ~overlapped

\* of a call of control_battery that returned: a command was sent only on a
\* changed value; a delivered command is remembered and reaches the battery;
\* after the failure of all retries the remembered value is unchanged and an
\* error notification was sent
ControlOnlyOnChange ==
    (Sequential /\ ControlCalled) =>
        /\ CommandSent => DecisionChanged
        /\ (CommandSent /\ ~AllRetriesFailed) =>
               /\ last_discharge_allowed = Some(Decided)
               /\ battery_w = (IF Decided THEN AllowedDischargeW
                               ELSE BlockedDischargeW)
               /\ ~cycle.notified
        /\ AllRetriesFailed =>
               /\ cycle.attempts = ControlMaxRetries
               /\ last_discharge_allowed = cycle.last_before
               /\ cycle.notified
        /\ ~CommandSent =>
               /\ last_discharge_allowed = cycle.last_before
               /\ ~cycle.notified

\* a cycle that computed a decision passed it to control_battery, which sent
\* a command when the value differs from the last delivered one
CycleCommandsOnChange ==
    (CycleRan /\ cycle.decided) =>
        /\ cycle.control_called
        /\ (Some(result.decision.discharge_allowed) # cycle.last_before) =>
               CommandSent

\* C20: across the cycles control_battery sends a command exactly when
\* discharge_allowed differs from the last delivered value, so always on the
\* first cycle and never on an unchanged value; after the failure of all
\* retries the remembered value is unchanged, an error notification is sent,
\* and the next call with the same decision goes on to send the command
\* again.
C20_CommandExactlyOnChange ==
    [][/\ ControlOnlyOnChange'
       /\ CycleCommandsOnChange'
       /\ (Sequential' /\ ControlCalled') => (DecisionChanged' => CommandSent')
       /\ (/\ Sequential'
           /\ ControlCalled
           /\ AllRetriesFailed
           /\ (ControlCalled' \/ ControlStarted')
           /\ Decided' = Decided) => ControlStarted']_vars

\* reachable: all five attempts of a call failed and control_battery returned
\* with no notification sent, Telegram not being configured
FailedWithoutNotification ==
    /\ ControlCalled
    /\ AllRetriesFailed
    /\ cycle.attempts = ControlMaxRetries
    /\ cycle.notify_called
    /\ ~cycle.notified
    /\ ~(telegram.bot_token /\ telegram.chat_id)

\* reachable: a changed value, the first, is dropped without a POST and
\* without a call of notify_error, no token being found
DroppedWithoutToken ==
    /\ ControlCalled
    /\ cycle.last_before = None
    /\ ~CommandSent
    /\ ~cycle.notify_called

\* reachable: the token was found by control_battery and not by set_number;
\* notify_error is called after no POST at all
TokenGoneInSetNumber ==
    /\ ControlCalled
    /\ ~CommandSent
    /\ cycle.notify_called

\* between calls in sequence, the remembered value is the one the battery
\* holds (an invariant of Spec)
SequentialMemoryIsTrue ==
    (Sequential /\ CallersIdle /\ last_discharge_allowed # None) =>
        last_discharge_allowed = Some(battery_w = AllowedDischargeW)

\* control_battery holds no lock, and a call that begins during another
\* breaks what C20 says of calls in sequence: thread 1 calls
\* control_battery(False) and its POST is accepted; before it writes
\* last_discharge_allowed, thread 2 calls control_battery(True), reads None,
\* has its POST accepted and returns; thread 1 then writes False.  The battery
\* is at 5000 W, remembered as blocked, and a later control_battery(False)
\* sends nothing (a state Spec reaches)
StaleMemoryAfterOverlap ==
    /\ CallersIdle
    /\ last_discharge_allowed = Some(FALSE)
    /\ battery_w = AllowedDischargeW

\* two callers that both read None both send the command: thread 2 makes its
\* first POST while thread 1, whose first two POSTs failed, sleeps (a state
\* Spec reaches)
BothCallersSend ==
    /\ op = "control_battery: POST"
    /\ cycle.caller = 2
    /\ callers[2].discharge_allowed
    /\ callers[2].call.posts = 1
    /\ callers[1] # None
    /\ callers[1].discharge_allowed
    /\ callers[1].call.pc = "sleep"
    /\ callers[1].call.posts = 2
    /\ last_discharge_allowed = None

\* C24: in every cycle that obtains a non-empty forecast, control_battery is
\* invoked with the discharge_allowed of the decision computed in that cycle,
\* also when recording the trajectories or the decision fails.
C24_DecisionReachesActuator ==
    (CycleRan /\ ~cycle.forecast_empty) =>
        /\ cycle.decided
        /\ cycle.control_called
        /\ cycle.discharge_allowed = Some(result.decision.discharge_allowed)

----------------------------------------------------------------------------
(* Claims about the appliance signal *)

SignalReturned == op = "calculate_appliance_signal"

\* current_pv_w - current_load_w of the call
PvExcessW == appliance.args.current_pv_w - appliance.args.current_load_w

\* v percent is at least reserve_percent + appliance_energy_wh / capacity_wh
\* * 100, the sum, the quotient and the product being those of floats
AtLeastOrangeThreshold(v) ==
    FloatLe(float_add(float_of_int(appliance.args.reserve_percent),
                      float_mul(float_truediv(
                                    float_of_int(appliance.args.appliance_energy_wh),
                                    float_of_int(appliance.args.capacity_wh)),
                                float_of_int(100))),
            float_of_int(v))

\* the minimum soc_percent of the simulation is at least the orange threshold,
\* an empty simulation or one without a soc_percent column counting as 0 %
MinSocAtLeastOrangeThreshold ==
    LET simulation == appliance.args.simulation
    IN IF simulation.index_len > 0 /\ "soc_percent" \in simulation.columns
       THEN \A i \in 1..simulation.index_len :
                AtLeastOrangeThreshold(simulation.soc_percent[i])
       ELSE AtLeastOrangeThreshold(0)

\* C28: calculate_appliance_signal returns exactly one of green, orange, red:
\* green if and only if current_pv_w - current_load_w > appliance_power_w
\* (strictly, whatever the simulation holds); otherwise orange if and only if
\* the minimum soc_percent of the simulation >= reserve_percent +
\* appliance_energy_wh / capacity_wh * 100 (equality gives orange); otherwise
\* red, an empty simulation or one without soc_percent counting as 0 %.
C28_SignalIsGreenOrangeRed ==
    SignalReturned =>
        LET signal == appliance.returned.signal
            green == PvExcessW > appliance.args.appliance_power_w
        IN /\ signal \in {"green", "orange", "red"}
           /\ (signal = "green") <=> green
           /\ (signal = "orange") <=> (~green /\ MinSocAtLeastOrangeThreshold)
           /\ (signal = "red") <=> (~green /\ ~MinSocAtLeastOrangeThreshold)

\* the excess equals appliance_power_w (so not green) and the lowest of
\* several SOC values sits exactly on the threshold: orange
C28_Witness ==
    /\ SignalReturned
    /\ PvExcessW = appliance.args.appliance_power_w
    /\ appliance.args.simulation.index_len > 1
    /\ "soc_percent" \in appliance.args.simulation.columns
    /\ MinSocAtLeastOrangeThreshold
    /\ \E i \in 1..appliance.args.simulation.index_len :
           /\ ~AtLeastOrangeThreshold(appliance.args.simulation.soc_percent[i] - 1)
           /\ i < appliance.args.simulation.index_len
    /\ appliance.returned.signal = "orange"

----------------------------------------------------------------------------
(* Claims about the charge point handler *)

\* the request a step passes to self.call, if any
SentInStep(before, after) ==
    IF Len(after.sent) > Len(before.sent)
    THEN SubSeq(after.sent, Len(before.sent) + 1, Len(after.sent))
    ELSE <<>>

\* C29: after any sequence of StartTransaction and StopTransaction messages,
\* every StartTransaction returns a transaction id strictly greater than every
\* id returned before (the first is 1) and makes it the active
\* transaction_id, every StopTransaction leaves transaction_id = None, and
\* remote_stop sends RemoteStopTransaction only while a transaction is active
\* (returning False without sending otherwise).  No other step passes a
\* RemoteStopTransaction to self.call, whatever commands are awaiting.
C29_TransactionIdsGrowAndStopGuards ==
    [][/\ op' = "on_start_transaction" =>
              LET id == charge_point'.returned.transaction_id
              IN /\ \A i \in 1..Len(charge_point.started) :
                        id > charge_point.started[i]
                 /\ (charge_point.started = <<>>) => id = 1
                 /\ charge_point'.transaction_id = Some(id)
                 /\ SentInStep(charge_point, charge_point') = <<>>
       /\ op' = "on_stop_transaction" =>
              /\ charge_point'.transaction_id = None
              /\ SentInStep(charge_point, charge_point') = <<>>
       /\ op' = "remote_stop" =>
              IF charge_point.transaction_id = None
              THEN /\ SentInStep(charge_point, charge_point') = <<>>
                   /\ charge_point'.returned = Some(FALSE)
                   /\ charge_point'.awaiting = charge_point.awaiting
              ELSE /\ SentInStep(charge_point, charge_point') =
                          <<RemoteStopTransactionRequest(
                                charge_point.transaction_id.some)>>
                   /\ charge_point'.transaction_id
                          = charge_point.transaction_id
       /\ op' # "remote_stop" =>
              \A i \in 1..Len(SentInStep(charge_point, charge_point')) :
                  SentInStep(charge_point, charge_point')[i].action
                      # "RemoteStopTransaction"]_vars

\* two transactions were started and the first stopped; remote_stop has sent
\* RemoteStopTransaction for the second, the active one, and the wallbox has
\* accepted it
C29_Witness ==
    /\ op = "call_answered"
    /\ charge_point.started = <<1, 2>>
    /\ charge_point.transaction_id = Some(2)
    /\ charge_point.sent = <<RemoteStopTransactionRequest(2)>>
    /\ charge_point.awaiting = 0
    /\ charge_point.returned = Some(TRUE)

\* remote_stop has handed over the stop request for transaction 1, the only
\* request so far, and the wallbox has answered it
StopOfFirstAnswered ==
    /\ charge_point.sent = <<RemoteStopTransactionRequest(1)>>
    /\ charge_point.awaiting = 0
    /\ charge_point.returned \in {Some(TRUE), Some(FALSE)}

\* reachable: remote_stop awaits the answer to the stop request for the
\* active transaction
StopAwaitingAnswer ==
    /\ charge_point.sent = <<RemoteStopTransactionRequest(1)>>
    /\ charge_point.awaiting = 1
    /\ charge_point.transaction_id = Some(1)
    /\ charge_point.returned = StartTransactionResult(1)

\* reachable: the transaction ended while remote_stop was awaiting
AnsweredAfterTransactionEnded ==
    /\ StopOfFirstAnswered
    /\ charge_point.started = <<1>>
    /\ charge_point.transaction_id = None

\* reachable: another transaction began while remote_stop was awaiting
AnsweredAfterNextTransactionBegan ==
    /\ StopOfFirstAnswered
    /\ charge_point.started = <<1, 2>>
    /\ charge_point.transaction_id = Some(2)

----------------------------------------------------------------------------
(* Claims about HAClient.set_number *)

SetNumberReturned == ha_call.pc = "done"

\* the i-th POST is the first the server accepts
FirstAccepted(i) ==
    /\ i \in 1..ha_call.max_retries
    /\ ha_call.responses[i] = "ok"
    /\ \A j \in 1..(i - 1) : ha_call.responses[j] # "ok"

\* at every point of the call: no POST without a token, never more than
\* max_retries POSTs, and as many sleeps as POSTs that another POST follows
SetNumberWithinRetries ==
    /\ ha_call.posts <= ha_call.max_retries
    /\ ~ha_call.token => ha_call.posts = 0 /\ ha_call.sleeps = 0
    /\ ha_call.sleeps <= ha_call.posts
    /\ ha_call.posts <= ha_call.sleeps + 1

\* at the return: (True, "") right after the first accepted POST; (False,
\* last error) after exactly max_retries failed POSTs with a sleep between
\* them and none after the last; (False, no token) without any POST
SetNumberReturnsAsSpecified ==
    SetNumberReturned =>
        IF ~ha_call.token
        THEN /\ ~ha_call.returned.success
             /\ ha_call.returned.error.kind = "No HA token available"
             /\ ha_call.posts = 0
             /\ ha_call.sleeps = 0
        ELSE IF \E i \in 1..ha_call.max_retries : FirstAccepted(i)
        THEN \E i \in 1..ha_call.max_retries :
                 /\ FirstAccepted(i)
                 /\ ha_call.returned = [success |-> TRUE,
                                        error |-> NoErrorMessage]
                 /\ ha_call.posts = i
                 /\ ha_call.sleeps = i - 1
        ELSE /\ ~ha_call.returned.success
             /\ ha_call.posts = ha_call.max_retries
             /\ ha_call.sleeps = ha_call.max_retries - 1
             /\ ha_call.returned.error =
                    ErrorMessage(ha_call.responses[ha_call.max_retries],
                                 ha_call.max_retries)

\* C30: set_number always terminates after at most max_retries POST
\* attempts: it stops at the first successful attempt and returns (True, ""),
\* returns (False, last error) only after exactly max_retries failed
\* attempts, waits retry_delay between attempts but not after the last one,
\* and makes no attempt at all when no token is available.
C30_SetNumberTerminatesWithinRetries ==
    /\ [](SetNumberWithinRetries /\ SetNumberReturnsAsSpecified)
    /\ <>SetNumberReturned

\* all max_retries POSTs failed, each in another way: the call has returned
\* (False, the error of the last attempt) after max_retries - 1 sleeps
C30_Witness ==
    /\ SetNumberReturned
    /\ ha_call.token
    /\ ha_call.max_retries = MaxRetries
    /\ ha_call.responses[1] = "Timeout"
    /\ ha_call.responses[MaxRetries] = "HTTPError"
    /\ ha_call.posts = MaxRetries
    /\ ha_call.sleeps = MaxRetries - 1
    /\ ha_call.returned = [success |-> FALSE,
                           error |-> ErrorMessage("HTTPError", MaxRetries)]

=============================================================================
